---- MODULE Spec2Model ----
(***************************************************************************)
(* Model of the state synchronisation engine of taipy.gui (class Gui in    *)
(* src/taipy/gui/gui.py): binding of variables into scopes, handling of    *)
(* the inbound messages UPDATE, REQUEST_UPDATE, DATA_UPDATE and ACTION,    *)
(* and the outbound MULTIPLE_UPDATE batches.                               *)
(*                                                                         *)
(* Collaborators whose code is not part of gui.py (_DataScopes,            *)
(* _Evaluator, _Adapter, _DataAccessors, the helpers of .utils) are        *)
(* modelled from their contracts in spec.md, sections 4.1 to 4.4.          *)
(***************************************************************************)
EXTENDS Integers, Sequences, FiniteSets, TLC

(***************************************************************************)
(* Bounds of the model.                                                    *)
(***************************************************************************)
\* longest string payload a client sends, in lexemes
MaxStrLen == 1

(***************************************************************************)
(* Values.  A value is a record [t, n, s]: t is the Python type, n the     *)
(* numeric content, s the textual content (a sequence of lexemes).         *)
(***************************************************************************)
IsoLexeme == "2021-11-21T23:00:00.000Z"
DigitChars == <<"0", "1", "2", "3", "4", "5", "6", "7", "8", "9">>
Digits == {DigitChars[i] : i \in 1..Len(DigitChars)}
\* the lexemes client strings are made of
Lexemes == {"5", "a"}

RECURSIVE SeqsUpTo(_)
SeqsUpTo(k) ==
    IF k = 0 THEN {<< >>}
    ELSE LET shorter == SeqsUpTo(k - 1)
         IN  shorter \cup {Append(q, c) : q \in shorter, c \in Lexemes}

Strings == SeqsUpTo(MaxStrLen)

Val(t, n, s) == [t |-> t, n |-> n, s |-> s]
IntV(n) == Val("int", n, << >>)
FloatV(n) == Val("float", n, << >>)
ComplexV(n) == Val("complex", n, << >>)
BoolV(b) == Val("bool", IF b THEN 1 ELSE 0, << >>)
StrV(s) == Val("str", 0, s)
\* the one instant the model knows: the one IsoLexeme denotes
DateV == Val("datetime", 1, << >>)
\* a _MapDictionary wrapping the dict n
MapV(n) == Val("map", n, <<"key">>)
\* the dict n, a dict of the single entry "key"
DictV(n) == Val("dict", n, <<"key">>)
\* a list of n integers (all zero)
ListV(n) == Val("list", n, << >>)
\* a value some registered data accessor recognises (tabular data)
TableV == Val("table", 0, << >>)
\* an instance of a class no accessor is registered for
ObjV == Val("object", 0, << >>)
NoneV == Val("none", 0, << >>)
\* what getattr finds when the attribute does not exist
NoAttr == Val("absent", 0, << >>)

(***************************************************************************)
(* Conversions between strings and typed values.                           *)
(***************************************************************************)
DigitVal(c) == (CHOOSE i \in 1..Len(DigitChars) : DigitChars[i] = c) - 1

\* str(n) of a natural number
RECURSIVE FmtNat(_)
FmtNat(n) ==
    IF n < 10 THEN <<DigitChars[n + 1]>>
    ELSE Append(FmtNat(n \div 10), DigitChars[(n % 10) + 1])

\* str(v), as an f-string formats a value
PyStr(v) ==
    CASE v.t = "str" -> v.s
      [] v.t = "int" -> FmtNat(v.n)
      [] v.t = "bool" -> IF v.n = 1 THEN <<"True">> ELSE <<"False">>
      [] OTHER -> <<"<", v.t, ">">>

RECURSIVE Base10(_)
Base10(s) ==
    IF s = << >> THEN 0
    ELSE 10 * Base10(SubSeq(s, 1, Len(s) - 1)) + DigitVal(s[Len(s)])

IsNumeral(s) == s # << >> /\ \A i \in 1..Len(s) : s[i] \in Digits

\* a conversion either returns a value or raises: [exc, val]
Returned(v) == [exc |-> "none", val |-> v]
Raised(e) == [exc |-> e, val |-> NoAttr]

\* int(value) if value else 0
PyInt(s) ==
    IF s = << >> THEN Returned(IntV(0))
    ELSE IF IsNumeral(s) THEN Returned(IntV(Base10(s)))
    ELSE Raised("ValueError")

\* float(value) if value else 0.0
PyFloat(s) ==
    IF s = << >> THEN Returned(FloatV(0))
    ELSE IF IsNumeral(s) THEN Returned(FloatV(Base10(s)))
    ELSE Raised("ValueError")

\* complex(value) if value else 0: the empty string gives the int 0
PyComplex(s) ==
    IF s = << >> THEN Returned(IntV(0))
    ELSE IF IsNumeral(s) THEN Returned(ComplexV(Base10(s)))
    ELSE Raised("ValueError")

\* bool(value): a string is true when it is not empty
PyBool(s) == Returned(BoolV(s # << >>))

ISOToDate(s) ==
    IF s = <<IsoLexeme>> THEN Returned(DateV) ELSE Raised("ValueError")

dateToISO(v) == StrV(<<IsoLexeme>>)

\* isinstance(v, int): bool is a subclass of int
IsInstanceInt(v) == v.t \in {"int", "bool"}

\* the types no string caster applies to
NoCasterTypes == {"object"}

_cast_string_value(var_name, currentvalue) ==
    IF currentvalue.t \in NoCasterTypes THEN NoneV ELSE currentvalue

\* (a registry that recognises no value)
IsDataAccessNever(var_name, value) == FALSE

_is_data_access(var_name, value) == value.t = "table"

\* the query of a DATA_UPDATE: a dict, here a window that starts at n
Query(n) == Val("dict", n, <<"start">>)

\* the windowed result of a data accessor for a query: the query's offset
_get_data(var_name, value, payload) == Val("window", payload.n, << >>)

\* (an adapter that hands out the dict a wrapper wraps)
AdapterUnwrapsMap(var_name, value) ==
    IF value.t = "map" THEN DictV(value.n) ELSE value

\* no adapter is registered: the value passes through
_run_adapter_for_var(var_name, value) == value

\* the coercion of _front_end_update: [exc, val, ignore]
\* (a coercion that forgets the int branch)
CoerceValueKeepsString(var_name, currentvalue, value) ==
    [exc |-> "none", val |-> value, ignore |-> FALSE]

Coerced(r) == [exc |-> r.exc, val |-> r.val, ignore |-> FALSE]

\* (a coercion whose int branch parses the empty string too)
CoerceValueParsesEmpty(var_name, currentvalue, value) ==
    IF value.t # "str" THEN Coerced(Returned(value))
    ELSE IF currentvalue.t = "datetime" THEN Coerced(ISOToDate(value.s))
    ELSE IF IsInstanceInt(currentvalue)
    THEN Coerced(IF IsNumeral(value.s) THEN Returned(IntV(Base10(value.s)))
                 ELSE Raised("ValueError"))
    ELSE Coerced(Returned(value))

CoerceValue(var_name, currentvalue, value) ==
    IF value.t # "str" THEN Coerced(Returned(value))
    ELSE IF currentvalue.t = "datetime" THEN Coerced(ISOToDate(value.s))
    ELSE IF IsInstanceInt(currentvalue) THEN Coerced(PyInt(value.s))
    ELSE IF currentvalue.t = "float" THEN Coerced(PyFloat(value.s))
    ELSE IF currentvalue.t = "complex" THEN Coerced(PyComplex(value.s))
    ELSE IF currentvalue.t = "bool" THEN Coerced(PyBool(value.s))
    ELSE IF _cast_string_value(var_name, currentvalue) = NoneV
         THEN [exc |-> "none", val |-> value, ignore |-> TRUE]
    ELSE Coerced(Returned(value))

(***************************************************************************)
(* Names, expressions and scopes.                                          *)
(***************************************************************************)
Sessions == {"A", "B"}
\* a call made outside any request: flask's request has no sid
NoSid == "nosid"
Contexts == Sessions \cup {NoSid}
GLOBAL == "global"
ScopeIds == Sessions \cup {GLOBAL}
\* the receiver None of an emit: every client
ALL == "all"

VarNames == {"count", "counter"}
\* a name that is no identifier, and a name Gui defines as a method
InvalidName == "my-var"
MethodName == "run"
BindNames == VarNames \cup {InvalidName, MethodName}
\* a name nothing was ever bound to
UnboundName == "ghost"

\* expressions a page may hold, with the variables each references
SingleExpr == "{count}"
PairExpr == "{count}/{counter}"
PairHash == "tp_count_counter"
\* a second expression of the same two variables
RevExpr == "{counter}/{count}"
RevHash == "tp_counter_count"
Exprs == VarNames \cup {SingleExpr, PairExpr, RevExpr}
\* a variable the application binds to a dict, and the path of its entry
DictVar == "cfg"
NestedPath == "cfg.key"
\* Gui.__UI_BLOCK_NAME, the variable block_ui binds
UiBlockName == "TaipyUiBlockVar"
\* a variable the application binds to tabular data
TableVar == "data"
Hashes == VarNames \cup {PairHash, RevHash, DictVar, UiBlockName, TableVar}
\* the dicts of the application: a _MapDictionary wraps a dict, it does not
\* copy it, so what a dict holds is kept apart from the wrappers
DictObjs == {1}
HEAP == "objects"

_fetch_expression_list(expr) ==
    CASE expr = SingleExpr -> <<"count">>
      [] expr = PairExpr -> <<"count", "counter">>
      [] expr = RevExpr -> <<"counter", "count">>
      [] OTHER -> <<expr>>

\* (a hash that is the text of the expression)
HashIsExpressionText(expr) ==
    LET vars == _fetch_expression_list(expr)
    IN  IF expr \in Exprs /\ Len(vars) > 1
        THEN (IF expr = PairExpr THEN PairHash ELSE RevHash)
        ELSE expr

\* an expression of a single variable has that variable's hash
get_hash_from_expr(expr) ==
    LET vars == _fetch_expression_list(expr)
    IN  IF expr \in Exprs /\ Len(vars) > 1
        THEN (IF expr = PairExpr THEN PairHash ELSE RevHash)
        ELSE vars[1]

NoFunc == "None"

\* the threads the server handles messages on
Threads == {"t1", "t2"}

VARIABLES
    running,          \* Gui.run was called
    multi_user,       \* _DataScopes: app_config["multi_user"]
    scopes,           \* _DataScopes: scope id -> attribute -> value
    props,            \* the names Gui carries a property for
    update_function,  \* Gui._update_function
    var_to_expr,      \* _Evaluator: variable -> expressions that use it
    last,             \* the call handled last
    prev,             \* the scopes as that call found them
    raised,           \* the exception that call let escape, or "none"
    warned,           \* the warnings that call logged
    calls,            \* the callbacks that call invoked
    sent,             \* the messages that call handed to the socket
    returned,         \* what that call returned: "None", "True" or "False"
    action_function,  \* Gui._action_function
    funcs,            \* the functions set as attributes of the Gui instance
    on_cancel,        \* the callback the function set for the cancel action holds
    handlers,         \* the UPDATE each handler thread is working on
    frames,           \* the _update_var calls of the UPDATE being handled, innermost last
    routes,           \* GuiConfig.routes: the routes of the pages, in order
    partial_routes,   \* GuiConfig.partial_routes, in order
    directories,      \* Gui._directory_name_of_pages
    partials_made     \* the number of Partial objects created so far

vars == <<running, multi_user, scopes, props, update_function, var_to_expr,
          last, prev, raised, warned, calls, sent, returned,
          action_function, funcs, on_cancel, handlers, frames,
          routes, partial_routes, directories, partials_made>>

\* the registry of pages and partials
pageVars == <<routes, partial_routes, directories, partials_made>>

\* Gui.__root_page_name
RootPage == "TaiPy_root_page"

\* what the calls that bind, evaluate and update leave alone
actionVars == <<action_function, funcs, on_cancel>>

EmptyScope == [h \in Hashes |-> NoAttr]

\* the store before any bind: every scope empty, every dict {"key": 0}
EmptyStore ==
    [sc \in ScopeIds \cup {HEAP} |->
        IF sc = HEAP THEN [o \in DictObjs |-> IntV(0)] ELSE EmptyScope]

\* a handler thread with no message to handle
Idle == [pc |-> "idle", ctx |-> NoSid, var_name |-> "", value |-> NoneV,
         modified |-> << >>, wrote |-> NoneV, pushed |-> NoneV]

get_scope(ctx) == IF ~multi_user \/ ctx = NoSid THEN GLOBAL ELSE ctx

\* (a receiver that is every client whatever the mode)
ReceiverEveryClient(ctx) == ALL

\* (a receiver that is the connection's sid whatever the mode)
ReceiverIgnoresMode(ctx) == IF ctx = NoSid THEN ALL ELSE ctx

_get_ws_receiver(ctx) == IF ctx = NoSid \/ ~multi_user THEN ALL ELSE ctx

HasScopeAttr(S, sc, name) == name \in Hashes /\ S[sc][name] # NoAttr

\* attrgetter(path)(scope): an attribute of the scope, or the entry of a
\* dict the scope holds wrapped; NoAttr for an AttributeError
attrgetter(S, sc, path) ==
    IF path \in Hashes THEN S[sc][path]
    ELSE IF path = NestedPath /\ S[sc][DictVar].t = "map"
    THEN S[HEAP][S[sc][DictVar].n]
    ELSE NoAttr

SetScopeAttr(S, sc, name, value) ==
    [S EXCEPT ![sc] = [@ EXCEPT ![name] = value]]

\* hasattr(self, name): a member of the class, or a property whose getter
\* finds the name in the active scope
HasGuiAttr(ctx, name) ==
    \/ name = MethodName
    \/ name \in props /\ HasScopeAttr(scopes, get_scope(ctx), name)

IsIdentifier(name) == name # InvalidName

_bind_global(S, name, value) ==
    IF HasScopeAttr(S, GLOBAL, name) THEN S
    ELSE SetScopeAttr(S, GLOBAL, name, value)

\* the value _bind stores: a dict is wrapped into a _MapDictionary
Wrapped(value) == IF value.t = "dict" THEN MapV(value.n) ELSE value

Call(op, ctx, name, payload, propagate) ==
    [op |-> op, ctx |-> ctx, name |-> name, payload |-> payload,
     propagate |-> propagate, keys |-> {}, names |-> << >>]

\* an inbound message: the keys it has, and the values under them
Message(keys, name, payload, propagate, names) ==
    [keys |-> keys, name |-> name, payload |-> payload,
     propagate |-> propagate, names |-> names]

Received(msg_type, ctx, message) ==
    [op |-> msg_type, ctx |-> ctx, name |-> message.name,
     payload |-> message.payload, propagate |-> message.propagate,
     keys |-> message.keys, names |-> message.names]


Quiet == /\ warned' = << >>
         /\ calls' = << >>
         /\ sent' = << >>

(***************************************************************************)
(* The expression evaluator.                                               *)
(***************************************************************************)
\* the value of an expression in a scope; "no value" when it cannot be
\* evaluated there
EvalExpr(S, sc, expr) ==
    LET names == _fetch_expression_list(expr)
    IN  IF \E i \in 1..Len(names) : ~HasScopeAttr(S, sc, names[i])
        THEN NoneV
        ELSE IF Len(names) = 1 THEN S[sc][names[1]]
        ELSE StrV(PyStr(S[sc][names[1]]) \o <<"/">> \o PyStr(S[sc][names[2]]))

\* the expressions, other than the variable itself, registered for var_name
\* whose hash is not the variable's own, in the order of registration
Dependents(var_name) ==
    IF var_name \in VarNames
    THEN SelectSeq(var_to_expr[var_name],
                   LAMBDA e : get_hash_from_expr(e) # var_name)
    ELSE << >>

RECURSIVE StoreEvaluated(_, _, _)
StoreEvaluated(S, sc, exprs) ==
    IF exprs = << >> THEN S
    ELSE StoreEvaluated(
             SetScopeAttr(S, sc, get_hash_from_expr(Head(exprs)),
                          EvalExpr(S, sc, Head(exprs))),
             sc, Tail(exprs))

\* re_evaluate_expr: [scopes, modified]
_re_evaluate_expr(S, sc, var_name) ==
    LET exprs == Dependents(var_name)
    IN  [scopes |-> StoreEvaluated(S, sc, exprs),
         modified |-> [i \in 1..Len(exprs) |-> get_hash_from_expr(exprs[i])]]

Registered(index, expr) ==
    LET names == _fetch_expression_list(expr)
    IN  [v \in VarNames |->
            IF (\E i \in 1..Len(names) : names[i] = v)
               /\ ~(\E j \in 1..Len(index[v]) : index[v][j] = expr)
            THEN Append(index[v], expr)
            ELSE index[v]]

(***************************************************************************)
(* Construction, run, binding, registration of callbacks.                  *)
(***************************************************************************)
NoCall == Call("init", NoSid, "", NoneV, FALSE)

Init ==
    /\ running = FALSE
    /\ multi_user = FALSE
    /\ scopes = EmptyStore
    /\ props = {}
    /\ update_function = NoFunc
    /\ var_to_expr = [v \in VarNames |-> << >>]
    /\ last = NoCall
    /\ prev = EmptyStore
    /\ raised = "none"
    /\ warned = << >>
    /\ calls = << >>
    /\ sent = << >>
    /\ returned = "None"
    /\ action_function = NoFunc
    /\ funcs = {}
    /\ on_cancel = NoFunc
    /\ handlers = [t \in Threads |-> Idle]
    /\ frames = << >>
    /\ routes = << >>
    /\ partial_routes = << >>
    /\ directories = {}
    /\ partials_made = 0

\* Gui.run: the configuration decides between one scope and one per client
Run(mu) ==
    /\ ~running
    /\ running' = TRUE
    /\ multi_user' = mu
    /\ last' = Call("run", NoSid, "", NoneV, mu)
    /\ prev' = scopes
    /\ routes' = IF \E i \in 1..Len(routes) : routes[i] = <<RootPage>>
                 THEN routes ELSE Append(routes, <<RootPage>>)
    /\ UNCHANGED <<actionVars, handlers, frames, partial_routes, directories,
                   partials_made>>
    /\ raised' = "none"
    /\ returned' = "None"
    /\ Quiet
    /\ UNCHANGED <<scopes, props, update_function, var_to_expr>>

\* what _bind does to the scopes and to the properties of Gui: [exc, scopes, props]
\* (a _bind without its first check)
BindSkipsBoundCheck(ctx, name, value) ==
    IF ~IsIdentifier(name) \/ name = MethodName
    THEN [exc |-> "ValueError", scopes |-> scopes, props |-> props]
    ELSE [exc |-> "none",
          scopes |-> _bind_global(
                         SetScopeAttr(scopes, get_scope(ctx), name, Wrapped(value)),
                         name, Wrapped(value)),
          props |-> props \cup {name}]

\* (a _bind without its second check)
BindSkipsIdentifierCheck(ctx, name, value) ==
    IF HasGuiAttr(ctx, name)
    THEN [exc |-> "ValueError", scopes |-> scopes, props |-> props]
    ELSE [exc |-> "none",
          scopes |-> _bind_global(
                         SetScopeAttr(scopes, get_scope(ctx), name, Wrapped(value)),
                         name, Wrapped(value)),
          props |-> props \cup {name}]

_bind(ctx, name, value) ==
    IF HasGuiAttr(ctx, name)
    THEN [exc |-> "ValueError", scopes |-> scopes, props |-> props]
    ELSE IF ~IsIdentifier(name)
    THEN [exc |-> "ValueError", scopes |-> scopes, props |-> props]
    ELSE [exc |-> "none",
          scopes |-> _bind_global(
                         SetScopeAttr(scopes, get_scope(ctx), name, Wrapped(value)),
                         name, Wrapped(value)),
          props |-> props \cup {name}]

\* the values the application binds
BindValues == {IntV(0), IntV(1)}

\* a call of Gui._bind
Bind(ctx, name, value) ==
    /\ running
    /\ LET r == _bind(ctx, name, value)
       IN  /\ scopes' = r.scopes
           /\ props' = r.props
           /\ raised' = r.exc
    /\ last' = Call("_bind", ctx, name, value, FALSE)
    /\ prev' = scopes
    /\ UNCHANGED <<actionVars, handlers, frames, pageVars>>
    /\ returned' = "None"
    /\ Quiet
    /\ UNCHANGED <<running, multi_user, update_function, var_to_expr>>

\* a call of Gui.bind_var_val; its result is last.propagate
BindVarVal(ctx, name, value) ==
    /\ running
    /\ IF HasGuiAttr(ctx, name)
       THEN /\ returned' = "False"
            /\ raised' = "none"
            /\ UNCHANGED <<scopes, props>>
       ELSE LET r == _bind(ctx, name, value)
            IN  /\ scopes' = r.scopes
                /\ props' = r.props
                /\ raised' = r.exc
                /\ returned' = IF r.exc = "none" THEN "True" ELSE "None"
    /\ last' = Call("bind_var_val", ctx, name, value, FALSE)
    /\ prev' = scopes
    /\ UNCHANGED <<actionVars, handlers, frames, pageVars>>
    /\ Quiet
    /\ UNCHANGED <<running, multi_user, update_function, var_to_expr>>

\* Gui.on_update
OnUpdate(f) ==
    /\ running
    /\ update_function' = f
    /\ last' = Call("on_update", NoSid, f, NoneV, FALSE)
    /\ prev' = scopes
    /\ UNCHANGED <<actionVars, handlers, frames, pageVars>>
    /\ raised' = "none"
    /\ returned' = "None"
    /\ Quiet
    /\ UNCHANGED <<running, multi_user, scopes, props, var_to_expr>>

\* Gui._evaluate_expr: the first evaluation registers the expression with
\* the variables it uses; the value is kept in the scope under the hash
EvaluateExpr(ctx, expr) ==
    /\ running
    /\ LET sc == get_scope(ctx)
           hash == get_hash_from_expr(expr)
           value == EvalExpr(scopes, sc, expr)
       IN  /\ scopes' = IF hash \in VarNames THEN scopes
                        ELSE SetScopeAttr(scopes, sc, hash, value)
           /\ warned' = IF value = NoneV THEN <<"evaluation">> ELSE << >>
    /\ var_to_expr' = Registered(var_to_expr, expr)
    /\ last' = Call("_evaluate_expr", ctx, expr, NoneV, FALSE)
    /\ prev' = scopes
    /\ UNCHANGED <<actionVars, handlers, frames, pageVars>>
    /\ raised' = "none"
    /\ returned' = "None"
    /\ calls' = << >>
    /\ sent' = << >>
    /\ UNCHANGED <<running, multi_user, props, update_function>>

(***************************************************************************)
(* Outbound change notifications.                                          *)
(***************************************************************************)
\* the payload of one entry: a dict that has a "value" key goes as it is
WsPayload(v) ==
    IF v.t = "dict" /\ v.s = <<"value">> THEN [value |-> IntV(v.n)]
    ELSE [value |-> v]

get_client_var_name(k) == k

\* ws_dict[key] = value: a key already there keeps its place
DictSet(d, key, value) ==
    IF \E i \in 1..Len(d) : d[i].name = key
    THEN [i \in 1..Len(d) |->
            IF d[i].name = key THEN [name |-> key, value |-> value] ELSE d[i]]
    ELSE Append(d, [name |-> key, value |-> value])

\* _DataScopes.broadcast_data: observers are told; no scope is written
broadcast_data(S, sc, var, value) == S

\* the loop of __send_var_list_update: [exc, dict]
RECURSIVE WsDict(_, _, _, _)

WsDict(S, sc, modified, d) ==
    IF modified = << >> THEN [exc |-> "none", dict |-> d]
    ELSE LET _var == Head(modified)
             newvalue == attrgetter(S, sc, _var)
             wire == IF newvalue.t = "datetime" THEN dateToISO(newvalue)
                     ELSE newvalue
         IN  IF newvalue = NoAttr THEN [exc |-> "AttributeError", dict |-> d]
             ELSE IF _is_data_access(_var, wire)
             THEN WsDict(S, sc, Tail(modified),
                         DictSet(d, _var \o ".refresh", BoolV(TRUE)))
             ELSE IF wire.t # "list"
                     /\ _run_adapter_for_var(_var, wire).t = "map"
             THEN WsDict(S, sc, Tail(modified), d)
             ELSE WsDict(S, sc, Tail(modified),
                         DictSet(d, _var, _run_adapter_for_var(_var, wire)))

\* _send_ws_update_with_dict: the message handed to the socket, and the
\* warning logged when the emit fails
MultipleUpdate(d, to, net) ==
    [type |-> "MULTIPLE_UPDATE",
     to |-> to,
     failed |-> (net = "down"),
     payload |-> [i \in 1..Len(d) |->
                     [name |-> get_client_var_name(d[i].name),
                      payload |-> WsPayload(d[i].value)]]]

NetStates == {"up", "down"}

EmitWarning(net) == IF net = "down" THEN <<"websocket">> ELSE << >>

\* an outcome of a handler: the exception it lets escape, the scopes it
\* leaves, the callbacks it invoked, the messages and warnings it produced
Outcome(exc, S, c, m, w) ==
    [exc |-> exc, scopes |-> S, calls |-> c, sent |-> m, warned |-> w]

\* (a __send_var_list_update whose emit is outside any try)
SendVarListUpdateLetsFailureEscape(S, ctx, modified, c, net) ==
    LET r == WsDict(S, get_scope(ctx), modified, << >>)
    IN  IF r.exc # "none" THEN Outcome(r.exc, S, c, << >>, << >>)
        ELSE Outcome(IF net = "down" THEN "Exception" ELSE "none", S, c,
                     <<MultipleUpdate(r.dict, _get_ws_receiver(ctx), net)>>,
                     << >>)

\* (a __send_var_list_update that reads the global scope whatever scope is
\* active)
SendVarListUpdateReadsGlobal(S, ctx, modified, c, net) ==
    LET r == WsDict(S, GLOBAL, modified, << >>)
    IN  IF r.exc # "none" THEN Outcome(r.exc, S, c, << >>, << >>)
        ELSE Outcome("none", S, c,
                     <<MultipleUpdate(r.dict, _get_ws_receiver(ctx), net)>>,
                     EmitWarning(net))

\* (a __send_var_list_update that sends each variable in a message of its own)
SendVarListUpdatePerVariable(S, ctx, modified, c, net) ==
    LET r == WsDict(S, get_scope(ctx), modified, << >>)
    IN  IF r.exc # "none" THEN Outcome(r.exc, S, c, << >>, << >>)
        ELSE Outcome("none", S, c,
                     [i \in 1..Len(r.dict) |->
                         MultipleUpdate(<<r.dict[i]>>, _get_ws_receiver(ctx), net)],
                     EmitWarning(net))

__send_var_list_update(S, ctx, modified, c, net) ==
    LET r == WsDict(S, get_scope(ctx), modified, << >>)
    IN  IF r.exc # "none" THEN Outcome(r.exc, S, c, << >>, << >>)
        ELSE Outcome("none", S, c,
                     <<MultipleUpdate(r.dict, _get_ws_receiver(ctx), net)>>,
                     EmitWarning(net))

(***************************************************************************)
(* Inbound messages.                                                       *)
(***************************************************************************)
\* attrsetter(scope, hash_expr, value)
\* (an attrsetter that writes the global scope whatever scope is active)
attrsetterGlobal(S, sc, hash_expr, value) ==
    SetScopeAttr(S, GLOBAL, hash_expr, value)

\* a dotted path sets the entry of the dict the wrapper in the scope wraps
attrsetter(S, sc, hash_expr, value) ==
    IF hash_expr = NestedPath
    THEN [S EXCEPT ![HEAP] = [@ EXCEPT ![S[sc][DictVar].n] = value]]
    ELSE SetScopeAttr(S, sc, hash_expr, value)

\* what the update callback, the application's code, does when invoked
CallbackResults == {"return", "raise"}

UpdateCall(var_name, value, cb) ==
    [fn |-> update_function, name |-> var_name, value |-> value,
     result |-> cb]

\* (an _update_var that writes whatever propagate says)
UpdateVarAlwaysWrites(S, ctx, var_name, value, propagate, cb, net) ==
    LET sc == get_scope(ctx)
        hash_expr == get_hash_from_expr(var_name)
        S1 == attrsetter(S, sc, hash_expr, value)
        c == IF update_function # NoFunc
             THEN <<UpdateCall(var_name, value, cb)>> ELSE << >>
    IN  IF update_function # NoFunc /\ cb = "raise"
        THEN Outcome("Exception", S1, c, << >>, << >>)
        ELSE __send_var_list_update(S1, ctx, <<hash_expr>>, c, net)

\* (an _update_var that tells the callback only of propagated updates)
UpdateVarCallsBackOnWrite(S, ctx, var_name, value, propagate, cb, net) ==
    LET sc == get_scope(ctx)
        hash_expr == get_hash_from_expr(var_name)
        S1 == IF propagate THEN attrsetter(S, sc, hash_expr, value) ELSE S
        c == IF update_function # NoFunc /\ propagate
             THEN <<UpdateCall(var_name, value, cb)>> ELSE << >>
    IN  IF c # << >> /\ cb = "raise"
        THEN Outcome("Exception", S1, c, << >>, << >>)
        ELSE __send_var_list_update(S1, ctx, <<hash_expr>>, c, net)

\* (an _update_var that lists the variable's own hash after its dependents)
UpdateVarOwnHashLast(S, ctx, var_name, value, propagate, cb, net) ==
    LET sc == get_scope(ctx)
        hash_expr == get_hash_from_expr(var_name)
        S1 == IF propagate THEN attrsetter(S, sc, hash_expr, value) ELSE S
        re == IF propagate /\ var_name = hash_expr
              THEN _re_evaluate_expr(S1, sc, var_name)
              ELSE [scopes |-> S1, modified |-> << >>]
        modified_vars == re.modified \o <<hash_expr>>
        c == IF update_function # NoFunc
             THEN <<UpdateCall(var_name, value, cb)>> ELSE << >>
    IN  IF update_function # NoFunc /\ cb = "raise"
        THEN Outcome("Exception", re.scopes, c, << >>, << >>)
        ELSE __send_var_list_update(re.scopes, ctx, modified_vars, c, net)

_update_var(S, ctx, var_name, value, propagate, cb, net) ==
    LET sc == get_scope(ctx)
        hash_expr == get_hash_from_expr(var_name)
        S1 == IF propagate THEN attrsetter(S, sc, hash_expr, value) ELSE S
        re == IF propagate /\ var_name = hash_expr
              THEN _re_evaluate_expr(S1, sc, var_name)
              ELSE [scopes |-> S1, modified |-> << >>]
        modified_vars == <<hash_expr>> \o re.modified
        c == IF update_function # NoFunc
             THEN <<UpdateCall(var_name, value, cb)>> ELSE << >>
    IN  IF update_function # NoFunc /\ cb = "raise"
        THEN Outcome("Exception", re.scopes, c, << >>, << >>)
        ELSE __send_var_list_update(re.scopes, ctx, modified_vars, c, net)

_front_end_update(S, ctx, var_name, value, propagate, cb, net) ==
    LET hash == get_hash_from_expr(var_name)
        currentvalue == attrgetter(S, get_scope(ctx), hash)
        co == CoerceValue(var_name, currentvalue, value)
    IN  IF currentvalue = NoAttr
        THEN Outcome("AttributeError", S, << >>, << >>, << >>)
        ELSE IF co.exc # "none" THEN Outcome(co.exc, S, << >>, << >>, << >>)
        ELSE IF co.ignore THEN Outcome("none", S, << >>, << >>, << >>)
        ELSE _update_var(S, ctx, var_name, co.val, propagate, cb, net)

\* payload is the value under "payload", names the list under its "names"
_request_var_update(S, ctx, payload, names, net) ==
    IF payload.t = "dict" /\ payload.s = <<"names">>
    THEN __send_var_list_update(S, ctx, names, << >>, net)
    ELSE IF payload.t \in {"dict", "list", "str"}
    THEN Outcome("none", S, << >>, << >>, << >>)
    ELSE Outcome("TypeError", S, << >>, << >>, << >>)

\* the except clauses of _manage_message: a TypeError or a KeyError ends as
\* a warning, any other exception escapes
Caught(o) ==
    IF o.exc \in {"TypeError", "KeyError"}
    THEN [o EXCEPT !.exc = "none", !.warned = Append(@, "decode")]
    ELSE o

\* _manage_message for each kind of message: [exc, scopes, calls, sent, warned]
ManageUpdateOutcome(S, ctx, message, cb, net) ==
    IF ~({"name", "payload"} \subseteq message.keys)
    THEN Caught(Outcome("KeyError", S, << >>, << >>, << >>))
    ELSE Caught(_front_end_update(
                    S, ctx, message.name, message.payload,
                    IF "propagate" \in message.keys THEN message.propagate
                    ELSE TRUE,
                    cb, net))

ManageRequestUpdateOutcome(S, ctx, message, net) ==
    IF "payload" \notin message.keys
    THEN Caught(Outcome("KeyError", S, << >>, << >>, << >>))
    ELSE Caught(_request_var_update(S, ctx, message.payload, message.names, net))

Handled(o) ==
    /\ scopes' = o.scopes
    /\ raised' = o.exc
    /\ warned' = o.warned
    /\ calls' = o.calls
    /\ sent' = o.sent
    /\ returned' = "None"
    /\ UNCHANGED <<running, multi_user, props, update_function, var_to_expr>>

\* the string payloads and the payloads of other JSON types
Payloads == {StrV(q) : q \in Strings} \cup {IntV(7)}

Update(name, payload) ==
    Message({"name", "payload"}, name, payload, TRUE, << >>)

UpdateNoPropagate(name, payload) ==
    Message({"name", "payload", "propagate"}, name, payload, FALSE, << >>)

\* the UPDATE messages of one connection: well formed ones, one naming a
\* variable nothing is bound to, two that lack a key
UpdateMessages ==
    {Update("count", p) : p \in Payloads}
    \cup {Update(SingleExpr, IntV(7))}
    \cup {UpdateNoPropagate("count", p) : p \in Payloads}
    \cup {Update(UnboundName, StrV(<< >>))}
    \cup {Message(k, "count", StrV(<< >>), TRUE, << >>) :
            k \in {{"name"}, {"payload"}}}

RequestUpdate(names) ==
    Message({"payload"}, "", Val("dict", 0, <<"names">>), TRUE, names)

RequestMessages ==
    {RequestUpdate(q) : q \in {<<"count">>, <<PairHash>>, <<"count", PairHash>>,
                               <<UnboundName>>}}
    \cup {Message({"payload"}, "", p, TRUE, << >>) : p \in {DictV(0), IntV(7)}}
    \cup {Message({}, "", NoneV, TRUE, << >>)}

ManageUpdate(ctx, message, cb, net) ==
    /\ running
    /\ last' = Received("UPDATE", ctx, message)
    /\ prev' = scopes
    /\ UNCHANGED <<actionVars, handlers, frames, pageVars>>
    /\ Handled(ManageUpdateOutcome(scopes, ctx, message, cb, net))

ManageRequestUpdate(ctx, message, net) ==
    /\ running
    /\ last' = Received("REQUEST_UPDATE", ctx, message)
    /\ prev' = scopes
    /\ UNCHANGED <<actionVars, handlers, frames, pageVars>>
    /\ Handled(ManageRequestUpdateOutcome(scopes, ctx, message, net))

\* a message of a kind _manage_message has no branch for
ManageUnknown(ctx, msg_type) ==
    /\ running
    /\ last' = Received(msg_type, ctx, Message({}, "", NoneV, TRUE, << >>))
    /\ prev' = scopes
    /\ UNCHANGED <<actionVars, handlers, frames, pageVars>>
    /\ Handled(Outcome("none", scopes, << >>, << >>, << >>))

UnknownTypes == {"PING"}

UpdateFunctions == {NoFunc, "on_change"}

\* the engine as one connection drives it
Connection == "A"

Next ==
    \/ \E mu \in BOOLEAN : Run(mu)
    \/ \E name \in VarNames, value \in BindValues :
          Bind(Connection, name, value)
    \/ \E f \in UpdateFunctions : OnUpdate(f)
    \/ EvaluateExpr(Connection, PairExpr)
    \/ \E message \in UpdateMessages, cb \in CallbackResults, net \in NetStates :
          ManageUpdate(Connection, message, cb, net)
    \/ \E message \in RequestMessages, net \in NetStates :
          ManageRequestUpdate(Connection, message, net)
    \/ \E msg_type \in UnknownTypes : ManageUnknown(Connection, msg_type)

Spec == Init /\ [][Next]_vars

(***************************************************************************)
(* The engine with several connections: every context binds, and counter   *)
(* is updated from every context.                                          *)
(***************************************************************************)
SessionUpdates == {Update("counter", p) : p \in {StrV(<<"5">>), IntV(7)}}

\* what the sessions bind: counter to each value, the other names to one
SessionBinds ==
    {<<"counter", v>> : v \in BindValues}
    \cup {<<n, IntV(0)>> : n \in BindNames \ {"counter"}}

NextSessions ==
    \/ \E mu \in BOOLEAN : Run(mu)
    \/ \E ctx \in Contexts, b \in SessionBinds : Bind(ctx, b[1], b[2])
    \/ \E ctx \in Contexts, b \in SessionBinds : BindVarVal(ctx, b[1], b[2])
    \/ \E ctx \in Contexts, message \in SessionUpdates, net \in NetStates :
          ManageUpdate(ctx, message, "return", net)

SpecSessions == Init /\ [][NextSessions]_vars

(***************************************************************************)
(* Actions: ACTION messages, on_action, bind_func.                         *)
(***************************************************************************)
\* the functions of the application's main frame (_locals_bind), each with
\* the number of parameters it declares
LocalFuncs == {"act0", "act1", "act2", "act3", "act4"}

FuncArgcount(f) ==
    CASE f = "act0" -> 0 [] f = "act1" -> 1 [] f = "act2" -> 2
      [] f = "act3" -> 3 [] f = "act4" -> 4
      [] f = "on_action0" -> 0 [] f = "on_action1" -> 1
      [] f = "on_action2" -> 2 [] f = "on_action3" -> 3
      [] f = "on_action4" -> 4 [] f = "on_action5" -> 5

\* the functions the application may register with on_action
ActionFunctions == {"on_action0", "on_action1", "on_action2", "on_action3",
                    "on_action4", "on_action5"}

SelfArg == Val("gui", 0, << >>)

\* _get_dict_value(message, "name"): the id, None when the key is missing
IdOf(message) ==
    IF "name" \in message.keys THEN StrV(<<message.name>>) ELSE NoneV

\* a dict payload naming an action, with further entries
ActionDict(a) == Val("dict", 0, <<"action", a>>)

\* the action of a payload: the entry "action" of a dict, str(payload) of
\* anything else
ActionOf(payload) ==
    IF payload.t = "dict"
    THEN IF Len(payload.s) = 2 /\ payload.s[1] = "action"
         THEN StrV(<<payload.s[2]>>) ELSE NoneV
    ELSE StrV(PyStr(payload))

\* the attribute name an action stands for; "" when it is None or empty
ActionName(action) ==
    IF action.t = "str" /\ Len(action.s) = 1 THEN action.s[1] ELSE ""

ActionCall(f, args, result) == [fn |-> f, args |-> args, result |-> result]

\* __call_function_with_args(action_function=f, id=.., payload=..,
\* action=..), f a function or NoFunc for anything that is no plain
\* function: [ok, calls, warned]
CallMisreadsArgcount(f, id, action, payload, result) ==
    [ok |-> result = "return",
     calls |-> <<ActionCall(f, <<SelfArg, id, payload>>, result)>>,
     warned |-> IF result = "raise" THEN <<"action exception">> ELSE << >>]

__call_function_with_args(f, id, action, payload, result) ==
    IF f = NoFunc THEN [ok |-> FALSE, calls |-> << >>, warned |-> << >>]
    ELSE LET argcount == FuncArgcount(f)
             args ==
                 CASE argcount = 0 -> << >>
                   [] argcount = 1 -> <<SelfArg>>
                   [] argcount = 2 -> <<SelfArg, id>>
                   [] argcount = 3 /\ action # NoneV -> <<SelfArg, id, action>>
                   [] argcount = 3 /\ action = NoneV -> <<SelfArg, id, payload>>
                   [] OTHER -> <<SelfArg, id, action, payload>>
         IN  IF argcount > 4 \/ (argcount = 4 /\ action = NoneV)
             THEN [ok |-> FALSE, calls |-> << >>,
                   warned |-> <<"wrong signature">>]
             ELSE [ok |-> result = "return",
                   calls |-> <<ActionCall(f, args, result)>>,
                   warned |-> IF result = "raise" THEN <<"action exception">>
                              ELSE << >>]

\* getattr(self, action) when it is a plain function, NoFunc when it is a
\* method of the class or the value of a bound variable
ExposedFunction(name) == IF name \in funcs THEN name ELSE NoFunc

\* (an _on_action that hands the action name to the exposed function too)
OnActionPassesAction(S, ctx, id, payload, res1, res2) ==
    LET action == ActionOf(payload)
        name == ActionName(action)
        found == name # "" /\ (HasGuiAttr(ctx, name) \/ name \in funcs)
        r1 == IF found
              THEN __call_function_with_args(ExposedFunction(name), id, action,
                                             payload, res1)
              ELSE [ok |-> FALSE, calls |-> << >>, warned |-> << >>]
        r2 == IF ~r1.ok /\ action_function # NoFunc
              THEN __call_function_with_args(action_function, id, action,
                                             payload, res2)
              ELSE [ok |-> FALSE, calls |-> << >>, warned |-> << >>]
    IN  Outcome("none", S, r1.calls \o r2.calls, << >>,
                r1.warned \o r2.warned)

_on_action(S, ctx, id, payload, res1, res2) ==
    LET action == ActionOf(payload)
        name == ActionName(action)
        found == name # "" /\ (HasGuiAttr(ctx, name) \/ name \in funcs)
        r1 == IF found
              THEN __call_function_with_args(ExposedFunction(name), id, NoneV,
                                             payload, res1)
              ELSE [ok |-> FALSE, calls |-> << >>, warned |-> << >>]
        r2 == IF ~r1.ok /\ action_function # NoFunc
              THEN __call_function_with_args(action_function, id, action,
                                             payload, res2)
              ELSE [ok |-> FALSE, calls |-> << >>, warned |-> << >>]
    IN  Outcome("none", S, r1.calls \o r2.calls, << >>,
                r1.warned \o r2.warned)

ManageActionOutcome(S, ctx, message, res1, res2) ==
    IF "payload" \notin message.keys
    THEN Caught(Outcome("KeyError", S, << >>, << >>, << >>))
    ELSE Caught(_on_action(S, ctx, IdOf(message), message.payload, res1, res2))

ManageAction(ctx, message, res1, res2) ==
    /\ running
    /\ last' = Received("ACTION", ctx, message)
    /\ prev' = scopes
    /\ UNCHANGED <<actionVars, handlers, frames, pageVars>>
    /\ Handled(ManageActionOutcome(scopes, ctx, message, res1, res2))

\* Gui.on_action
OnAction(f) ==
    /\ running
    /\ action_function' = f
    /\ last' = Call("on_action", NoSid, f, NoneV, FALSE)
    /\ prev' = scopes
    /\ raised' = "none"
    /\ returned' = "None"
    /\ Quiet
    /\ UNCHANGED <<running, multi_user, scopes, props, update_function,
                   var_to_expr, funcs, on_cancel, handlers, frames, pageVars>>

\* Gui.bind_func
BindFunc(ctx, func_name) ==
    /\ running
    /\ IF ~(HasGuiAttr(ctx, func_name) \/ func_name \in funcs)
          /\ func_name \in LocalFuncs
       THEN funcs' = funcs \cup {func_name} /\ returned' = "True"
       ELSE funcs' = funcs /\ returned' = "False"
    /\ last' = Call("bind_func", ctx, func_name, NoneV, FALSE)
    /\ prev' = scopes
    /\ raised' = "none"
    /\ Quiet
    /\ UNCHANGED <<running, multi_user, scopes, props, update_function,
                   var_to_expr, action_function, on_cancel, handlers, frames,
                   pageVars>>

Action(id, payload) == Message({"name", "payload"}, id, payload, TRUE, << >>)

\* names an ACTION may carry: functions of the application, a bound
\* variable, a method of Gui, a name of nothing, the empty string
ActionNames == LocalFuncs \cup {"count", MethodName, "nope"}

ActionMessages ==
    {Action("id1", StrV(<<a>>)) : a \in ActionNames}
    \cup {Action("id1", p) : p \in {ActionDict("nope"), ActionDict("act3"),
                                    DictV(0), StrV(<< >>)}}
    \cup {Message({"payload"}, "", StrV(<<"nope">>), TRUE, << >>),
          Message({"name"}, "id1", NoneV, TRUE, << >>)}

NextAction ==
    \/ \E mu \in BOOLEAN : Run(mu)
    \/ Bind(Connection, "count", IntV(0))
    \/ \E f \in ActionFunctions \cup {NoFunc} : OnAction(f)
    \/ \E f \in LocalFuncs \cup {"count", "nope"} : BindFunc(Connection, f)
    \/ \E message \in ActionMessages, res1 \in CallbackResults,
          res2 \in CallbackResults :
          ManageAction(Connection, message, res1, res2)

SpecAction == Init /\ [][NextAction]_vars

(***************************************************************************)
(* Concurrent handlers: every inbound message is handled on a thread of    *)
(* its own, and Gui takes no lock; the steps of _front_end_update and      *)
(* _update_var of two handlers interleave at every access to the scope.    *)
(***************************************************************************)
ConcPayloads == {StrV(<<"5">>), IntV(7)}

ConcVar == "count"

\* the steps leave the record of the last call alone
StepFrame ==
    UNCHANGED <<running, multi_user, props, update_function, var_to_expr,
                last, prev, returned, actionVars, frames, pageVars>>

\* _manage_message takes an UPDATE: the handler has its arguments
Receive(th, ctx, payload) ==
    /\ running
    /\ handlers[th].pc = "idle"
    /\ handlers' = [handlers EXCEPT ![th] =
           [Idle EXCEPT !.pc = "read", !.ctx = ctx, !.var_name = ConcVar,
                        !.value = payload]]
    /\ UNCHANGED <<scopes, raised, warned, calls, sent>>
    /\ StepFrame

\* _front_end_update: reads the current value and coerces the payload
ReadAndCoerce(th) ==
    /\ handlers[th].pc = "read"
    /\ LET h == handlers[th]
           hash == get_hash_from_expr(h.var_name)
           currentvalue == attrgetter(scopes, get_scope(h.ctx), hash)
           co == CoerceValue(h.var_name, currentvalue, h.value)
       IN  IF currentvalue = NoAttr
           THEN /\ raised' = "AttributeError"
                /\ handlers' = [handlers EXCEPT ![th].pc = "done"]
           ELSE IF co.exc # "none"
           THEN /\ raised' = co.exc
                /\ handlers' = [handlers EXCEPT ![th].pc = "done"]
           ELSE IF co.ignore
           THEN /\ raised' = "none"
                /\ handlers' = [handlers EXCEPT ![th].pc = "done"]
           ELSE /\ raised' = "none"
                /\ handlers' = [handlers EXCEPT ![th].pc = "write",
                                                ![th].value = co.val]
    /\ UNCHANGED <<scopes, warned, calls, sent>>
    /\ StepFrame

\* _update_var: attrsetter and the re-evaluation of the dependents
Write(th) ==
    /\ handlers[th].pc = "write"
    /\ LET h == handlers[th]
           sc == get_scope(h.ctx)
           hash_expr == get_hash_from_expr(h.var_name)
           S1 == attrsetter(scopes, sc, hash_expr, h.value)
           re == IF h.var_name = hash_expr
                 THEN _re_evaluate_expr(S1, sc, h.var_name)
                 ELSE [scopes |-> S1, modified |-> << >>]
       IN  /\ scopes' = re.scopes
           /\ handlers' = [handlers EXCEPT
                  ![th].pc = "callback",
                  ![th].wrote = h.value,
                  ![th].modified = <<hash_expr>> \o re.modified]
    /\ UNCHANGED <<raised, warned, calls, sent>>
    /\ StepFrame

\* _update_var: the update callback
Callback(th, cb) ==
    /\ handlers[th].pc = "callback"
    /\ LET h == handlers[th]
       IN  IF update_function = NoFunc
           THEN /\ handlers' = [handlers EXCEPT ![th].pc = "notify"]
                /\ UNCHANGED <<calls, raised>>
           ELSE /\ calls' = <<UpdateCall(h.var_name, h.value, cb)>>
                /\ raised' = IF cb = "raise" THEN "Exception" ELSE "none"
                /\ handlers' = [handlers EXCEPT ![th].pc =
                       IF cb = "raise" THEN "done" ELSE "notify"]
    /\ UNCHANGED <<scopes, warned, sent>>
    /\ StepFrame

\* the value a MULTIPLE_UPDATE carries for a variable, None when it has none
PushedFor(messages, name) ==
    IF messages # << >>
       /\ \E i \in 1..Len(messages[1].payload) :
              messages[1].payload[i].name = name
    THEN LET i == CHOOSE i \in 1..Len(messages[1].payload) :
                      messages[1].payload[i].name = name
         IN  messages[1].payload[i].payload.value
    ELSE NoneV

\* _update_var: __send_var_list_update reads the scope anew
Notify(th, net) ==
    /\ handlers[th].pc = "notify"
    /\ LET h == handlers[th]
           o == __send_var_list_update(scopes, h.ctx, h.modified, << >>, net)
       IN  /\ sent' = o.sent
           /\ warned' = o.warned
           /\ raised' = o.exc
           /\ handlers' = [handlers EXCEPT
                  ![th].pc = "done",
                  ![th].pushed = PushedFor(o.sent,
                                     get_client_var_name(
                                         get_hash_from_expr(h.var_name)))]
    /\ UNCHANGED <<scopes, calls>>
    /\ StepFrame

\* the handler returns; its thread takes the next message
Return(th) ==
    /\ handlers[th].pc = "done"
    /\ handlers' = [handlers EXCEPT ![th] = Idle]
    /\ UNCHANGED <<scopes, raised, warned, calls, sent>>
    /\ StepFrame

NextConc ==
    \/ \E mu \in BOOLEAN : Run(mu)
    \/ Bind(Connection, ConcVar, IntV(0))
    \/ \E f \in UpdateFunctions : OnUpdate(f)
    \/ \E th \in Threads, payload \in ConcPayloads :
          Receive(th, Connection, payload)
    \/ \E th \in Threads : ReadAndCoerce(th)
    \/ \E th \in Threads : Write(th)
    \/ \E th \in Threads, cb \in CallbackResults : Callback(th, cb)
    \/ \E th \in Threads, net \in NetStates : Notify(th, net)
    \/ \E th \in Threads : Return(th)

SpecConc == Init /\ [][NextConc]_vars

(***************************************************************************)
(* Binds and updates of several sessions, a dict-valued variable included. *)
(***************************************************************************)
\* what the application binds a name to: the dict is the one object the
\* main frame holds under the name
GlobalBinds ==
    {<<"counter", v>> : v \in BindValues} \cup {<<DictVar, DictV(1)>>}

GlobalUpdates ==
    {Update("counter", p) : p \in {StrV(<<"5">>), IntV(7)}}
    \cup {Update(NestedPath, p) : p \in {StrV(<<"5">>), IntV(7)}}

NextGlobal ==
    \/ \E mu \in BOOLEAN : Run(mu)
    \/ \E ctx \in Contexts, b \in GlobalBinds : Bind(ctx, b[1], b[2])
    \/ \E ctx \in Contexts, message \in GlobalUpdates, net \in NetStates :
          ManageUpdate(ctx, message, "return", net)

SpecGlobal == Init /\ [][NextGlobal]_vars

(***************************************************************************)
(* Pages and partials.  A route is a string: a sequence of lexemes.        *)
(***************************************************************************)
\* longest list of routes of partials
MaxPartials == 2

\* Gui._reserved_routes
ReservedRoutes == {<<"initialize">>, <<"flask-jsx">>}

\* the lexemes __RE_PAGE_NAME accepts: letters, digits, dash, underscore
\* and slash, and nothing else
PageNameLexemes == {"home", "initialize", "flask-jsx", "TaiPy_partials_", "/",
                    RootPage} \cup Digits

\* Gui.__RE_PAGE_NAME.match(name): ^[\w\-\/]+$
MatchesPageName(name) ==
    name # << >> /\ \A i \in 1..Len(name) : name[i] \in PageNameLexemes

\* name.startswith("/")
StartsWithSlash(name) == name # << >> /\ name[1] = "/"

\* the name None
NoName == <<"None">>

InSeq(x, q) == \E i \in 1..Len(q) : q[i] = x

\* the route of the k-th Partial created (k from 0)
PartialRoute(k) == <<"TaiPy_partials_">> \o FmtNat(k)

\* add_page on the routes R: [exc, routes]
add_page(R, name, renderer_ok) ==
    IF name = NoName THEN [exc |-> "Exception", routes |-> R]
    ELSE IF ~MatchesPageName(name) THEN [exc |-> "SyntaxError", routes |-> R]
    ELSE IF StartsWithSlash(name) THEN [exc |-> "SyntaxError", routes |-> R]
    ELSE IF InSeq(name, R) THEN [exc |-> "Exception", routes |-> R]
    ELSE IF ~renderer_ok THEN [exc |-> "Exception", routes |-> R]
    ELSE [exc |-> "none", routes |-> Append(R, name)]

\* add_page for each item of a dict, "/" standing for the root page; the
\* first exception ends the loop and keeps the pages added before it
RECURSIVE AddEach(_, _)
AddEach(R, items) ==
    IF items = << >> THEN [exc |-> "none", routes |-> R]
    ELSE LET k == IF Head(items).name = <<"/">> THEN <<RootPage>>
                  ELSE Head(items).name
             r == add_page(R, k, Head(items).ok)
         IN  IF r.exc # "none" THEN r ELSE AddEach(r.routes, Tail(items))

PageCall(op, name) == Call(op, NoSid, "", StrV(name), FALSE)

PageFrame ==
    /\ prev' = scopes
    /\ returned' = "None"
    /\ Quiet
    /\ UNCHANGED <<running, multi_user, scopes, props, update_function,
                   var_to_expr, actionVars, handlers, frames>>

\* Gui.add_page
AddPage(name, renderer_ok) ==
    /\ LET r == add_page(routes, name, renderer_ok)
       IN  routes' = r.routes /\ raised' = r.exc
    /\ last' = PageCall("add_page", name)
    /\ UNCHANGED <<partial_routes, directories, partials_made>>
    /\ PageFrame

\* Gui.add_pages with a dict: items is the list of its items
AddPagesDict(items) ==
    /\ LET r == AddEach(routes, items)
       IN  routes' = r.routes /\ raised' = r.exc
    /\ last' = PageCall("add_pages", Head(items).name)
    /\ UNCHANGED <<partial_routes, directories, partials_made>>
    /\ PageFrame

\* Gui.add_pages with the name of a folder: its base name, whether it is a
\* directory, and the stems of the .html and .md files in it
AddPagesFolder(folder) ==
    /\ IF ~folder.isdir
       THEN raised' = "RuntimeError" /\ UNCHANGED <<routes, directories>>
       ELSE IF folder.base \in directories
       THEN raised' = "Exception" /\ UNCHANGED <<routes, directories>>
       ELSE IF folder.base \in ReservedRoutes
       THEN raised' = "Exception" /\ UNCHANGED <<routes, directories>>
       ELSE LET r == AddEach(routes,
                             [i \in 1..Len(folder.stems) |->
                                 [name |-> folder.stems[i], ok |-> TRUE]])
            IN  /\ directories' = directories \cup {folder.base}
                /\ routes' = r.routes
                /\ raised' = r.exc
    /\ last' = PageCall("add_pages", folder.base)
    /\ UNCHANGED <<partial_routes, partials_made>>
    /\ PageFrame

\* Gui.add_partial: a collision of the route is a warning only
AddPartial(renderer_ok) ==
    /\ partials_made < MaxPartials
    /\ LET route == PartialRoute(partials_made)
       IN  /\ partials_made' = partials_made + 1
           /\ prev' = scopes
           /\ returned' = IF renderer_ok THEN "Partial" ELSE "None"
           /\ warned' = IF InSeq(route, partial_routes) \/ InSeq(route, routes)
                        THEN <<"already defined">> ELSE << >>
           /\ raised' = IF renderer_ok THEN "none" ELSE "Exception"
           /\ partial_routes' = IF renderer_ok THEN Append(partial_routes, route)
                                ELSE partial_routes
           /\ last' = PageCall("add_partial", route)
    /\ calls' = << >>
    /\ sent' = << >>
    /\ UNCHANGED <<routes, directories>>
    /\ UNCHANGED <<running, multi_user, scopes, props, update_function,
                   var_to_expr, actionVars, handlers, frames>>

\* the names pages are added under
PageNames == {<<"home">>, <<"initialize">>, PartialRoute(0), <<"/", "home">>,
              <<"home", " ", "home">>, << >>, NoName}

PageDicts ==
    {<<[name |-> <<"/">>, ok |-> TRUE]>>,
     <<[name |-> <<"home">>, ok |-> TRUE], [name |-> <<"home", " ">>, ok |-> TRUE]>>,
     <<[name |-> <<"flask-jsx">>, ok |-> TRUE], [name |-> <<"home">>, ok |-> FALSE]>>}

Folders ==
    {[base |-> <<"docs">>, isdir |-> TRUE, stems |-> <<<<"home">>, <<"1">>>>],
     [base |-> <<"docs">>, isdir |-> FALSE, stems |-> << >>],
     [base |-> <<"initialize">>, isdir |-> TRUE, stems |-> <<<<"home">>>>]}

NextPages ==
    \/ \E mu \in BOOLEAN : Run(mu)
    \/ \E name \in PageNames, renderer_ok \in BOOLEAN : AddPage(name, renderer_ok)
    \/ \E items \in PageDicts : AddPagesDict(items)
    \/ \E folder \in Folders : AddPagesFolder(folder)
    \/ \E renderer_ok \in BOOLEAN : AddPartial(renderer_ok)

SpecPages == Init /\ [][NextPages]_vars

(***************************************************************************)
(* DATA_UPDATE, and the control messages ALERT, BLOCK and NAVIGATE.        *)
(***************************************************************************)
\* (a _request_data_update that leaves the refresh flag out)
RequestDataUpdateNoRefresh(S, ctx, var_name, payload, net) ==
    LET hash == get_hash_from_expr(var_name)
        newvalue == attrgetter(S, get_scope(ctx), hash)
        ret_payload == _get_data(hash, newvalue, payload)
    IN  IF newvalue = NoAttr
        THEN Outcome("AttributeError", S, << >>, << >>, << >>)
        ELSE Outcome("none", S, << >>,
                     <<MultipleUpdate(
                           <<[name |-> hash, value |-> ret_payload]>>,
                           _get_ws_receiver(ctx), net)>>,
                     EmitWarning(net))

_request_data_update(S, ctx, var_name, payload, net) ==
    LET hash == get_hash_from_expr(var_name)
        newvalue == attrgetter(S, get_scope(ctx), hash)
        ret_payload == _get_data(hash, newvalue, payload)
    IN  IF newvalue = NoAttr
        THEN Outcome("AttributeError", S, << >>, << >>, << >>)
        ELSE Outcome("none", S, << >>,
                     <<MultipleUpdate(
                           <<[name |-> hash, value |-> ret_payload],
                             [name |-> hash \o ".refresh",
                              value |-> BoolV(FALSE)]>>,
                           _get_ws_receiver(ctx), net)>>,
                     EmitWarning(net))

ManageDataUpdateOutcome(S, ctx, message, net) ==
    IF ~({"name", "payload"} \subseteq message.keys)
    THEN Caught(Outcome("KeyError", S, << >>, << >>, << >>))
    ELSE Caught(_request_data_update(S, ctx, message.name, message.payload,
                                     net))

ManageDataUpdate(ctx, message, net) ==
    /\ running
    /\ last' = Received("DATA_UPDATE", ctx, message)
    /\ prev' = scopes
    /\ UNCHANGED <<actionVars, handlers, frames, pageVars>>
    /\ Handled(ManageDataUpdateOutcome(scopes, ctx, message, net))

DataUpdate(name, payload) ==
    Message({"name", "payload"}, name, payload, TRUE, << >>)

DataMessages ==
    {DataUpdate(TableVar, Query(n)) : n \in {0, 5}}
    \cup {DataUpdate(UnboundName, Query(0)),
          Message({"name"}, TableVar, NoneV, TRUE, << >>)}

\* a control message handed to the socket
Emit(type, payload, to, net) ==
    [type |-> type, to |-> to, failed |-> (net = "down"), payload |-> payload]

\* notification_duration when the configuration sets none
DefaultDuration == 3000

\* _get_app_config(name, default_value) of a configuration that leaves the
\* option unset
_get_app_config(name, default_value) == default_value

_send_ws_alert(ctx, type, message, browser_notification, duration, net) ==
    Emit("ALERT",
         [atype |-> type, message |-> message,
          browser |-> browser_notification, duration |-> duration],
         _get_ws_receiver(ctx), net)

_send_ws_block(ctx, action, message, close, cancel, net) ==
    Emit("BLOCK",
         [action |-> action, close |-> close, message |-> message,
          noCancel |-> ~cancel],
         _get_ws_receiver(ctx), net)

_send_ws_navigate(ctx, to, net) ==
    Emit("NAVIGATE", [to |-> to], _get_ws_receiver(ctx), net)

\* what a public method that pushes leaves alone
PushFrame ==
    /\ prev' = scopes
    /\ raised' = "none"
    /\ returned' = "None"
    /\ calls' = << >>
    /\ UNCHANGED <<running, multi_user, update_function, var_to_expr,
                   action_function, handlers, frames, pageVars>>

\* Gui.send_alert
SendAlert(ctx, browser_notification, duration, net) ==
    /\ running
    /\ sent' = <<_send_ws_alert(
                    ctx, "I", "msg",
                    IF browser_notification = NoneV
                    THEN _get_app_config("browser_notification", BoolV(TRUE))
                    ELSE browser_notification,
                    IF duration = NoneV
                    THEN _get_app_config("notification_duration",
                                         IntV(DefaultDuration))
                    ELSE duration,
                    net)>>
    /\ warned' = EmitWarning(net)
    /\ last' = Call("send_alert", ctx, "", duration, FALSE)
    /\ UNCHANGED <<scopes, props, funcs, on_cancel>>
    /\ PushFrame

\* the function block_ui sets as an attribute for the cancel action
CancelBlockName == "_taipy_on_cancel_block_ui"

\* the functions set as attributes once bind_func(func_name) returned
bind_func(ctx, func_name) ==
    IF ~(HasGuiAttr(ctx, func_name) \/ func_name \in funcs)
       /\ func_name \in LocalFuncs
    THEN funcs \cup {func_name} ELSE funcs

\* Gui.block_ui; action_name is NoFunc for no callback
BlockUi(ctx, action_name, net) ==
    /\ running
    /\ funcs' = (IF action_name # NoFunc THEN bind_func(ctx, action_name)
                 ELSE funcs) \cup {CancelBlockName}
    /\ on_cancel' = action_name
    /\ IF HasScopeAttr(scopes, get_scope(ctx), UiBlockName)
       THEN /\ scopes' = SetScopeAttr(scopes, get_scope(ctx), UiBlockName,
                                      BoolV(TRUE))
            /\ props' = props
       ELSE LET r == _bind(ctx, UiBlockName, BoolV(TRUE))
            IN  scopes' = r.scopes /\ props' = r.props
    /\ sent' = <<_send_ws_block(ctx, CancelBlockName, "Work in Progress...",
                                FALSE, action_name # NoFunc, net)>>
    /\ warned' = EmitWarning(net)
    /\ last' = Call("block_ui", ctx, action_name, NoneV, FALSE)
    /\ PushFrame

\* Gui.unblock_ui
UnblockUi(ctx, net) ==
    /\ running
    /\ scopes' = IF HasScopeAttr(scopes, get_scope(ctx), UiBlockName)
                 THEN SetScopeAttr(scopes, get_scope(ctx), UiBlockName,
                                   BoolV(FALSE))
                 ELSE scopes
    /\ sent' = <<_send_ws_block(ctx, NoFunc, NoFunc, TRUE, FALSE, net)>>
    /\ warned' = EmitWarning(net)
    /\ last' = Call("unblock_ui", ctx, "", NoneV, FALSE)
    /\ UNCHANGED <<props, funcs, on_cancel>>
    /\ PushFrame

\* Gui.navigate: to is a route, the empty string for the root page
Navigate(ctx, to, net) ==
    /\ running
    /\ LET route == IF to # << >> THEN to ELSE <<RootPage>>
       IN  IF ~InSeq(route, routes)
           THEN sent' = << >> /\ warned' = <<"not a declared route">>
           ELSE /\ sent' = <<_send_ws_navigate(ctx, route, net)>>
                /\ warned' = EmitWarning(net)
    /\ last' = Call("navigate", ctx, "", StrV(to), FALSE)
    /\ UNCHANGED <<scopes, props, funcs, on_cancel>>
    /\ PushFrame

PushBinds == {<<"count", IntV(0)>>, <<TableVar, TableV>>}

\* a request of a connection, and a call made outside any request
PushContexts == {Connection, NoSid}

NextPush ==
    \/ \E mu \in BOOLEAN : Run(mu)
    \/ \E ctx \in PushContexts, b \in PushBinds : Bind(ctx, b[1], b[2])
    \/ \E ctx \in PushContexts, net \in NetStates :
          ManageUpdate(ctx, Update("count", IntV(7)), "return", net)
    \/ \E ctx \in PushContexts, net \in NetStates :
          ManageRequestUpdate(ctx, RequestUpdate(<<"count", TableVar>>), net)
    \/ \E ctx \in PushContexts, message \in DataMessages, net \in NetStates :
          ManageDataUpdate(ctx, message, net)
    \/ \E ctx \in PushContexts, b \in {NoneV, BoolV(FALSE)},
          d \in {NoneV, IntV(5)}, net \in NetStates :
          SendAlert(ctx, b, d, net)
    \/ \E ctx \in PushContexts, a \in {NoFunc, "act0"}, net \in NetStates :
          BlockUi(ctx, a, net)
    \/ \E ctx \in PushContexts, net \in NetStates : UnblockUi(ctx, net)
    \/ \E ctx \in PushContexts, to \in {<< >>, <<"home">>}, net \in NetStates :
          Navigate(ctx, to, net)

SpecPush == Init /\ [][NextPush]_vars

(***************************************************************************)
(* Blocking the UI from several contexts, and the cancel action.           *)
(***************************************************************************)
\* _taipy_on_cancel_block_ui(guiApp, id, payload), the function block_ui
\* set last: it resets the flag of the active scope, then hands the callback
\* it holds to _on_action as the payload
OnCancelBlockUi(S, ctx, id, res1, res2) ==
    LET sc == get_scope(ctx)
        S1 == IF HasScopeAttr(S, sc, UiBlockName)
              THEN SetScopeAttr(S, sc, UiBlockName, BoolV(FALSE))
              ELSE S
        callback == IF on_cancel = NoFunc THEN NoneV ELSE StrV(<<on_cancel>>)
    IN  _on_action(S1, ctx, id, callback, res1, res2)

\* _manage_message for the ACTION a client sends to cancel: its payload is
\* the action of the BLOCK message.  _on_action finds the function once
\* block_ui has set it, and calls it with (self, id, payload)
CancelAction(ctx, res1, res2) ==
    /\ running
    /\ last' = Received("ACTION", ctx, Action("id1", StrV(<<CancelBlockName>>)))
    /\ prev' = scopes
    /\ Handled(Caught(
           IF CancelBlockName \in funcs
           THEN OnCancelBlockUi(scopes, ctx, StrV(<<"id1">>), res1, res2)
           ELSE _on_action(scopes, ctx, StrV(<<"id1">>),
                           StrV(<<CancelBlockName>>), res1, res2)))
    /\ UNCHANGED <<actionVars, handlers, frames, pageVars>>

\* the callbacks given to block_ui: none, and functions of the application
BlockCallbacks == {NoFunc, "act0", "act3"}

NextBlock ==
    \/ \E mu \in BOOLEAN : Run(mu)
    \/ \E f \in {NoFunc, "on_action4"} : OnAction(f)
    \/ \E ctx \in Contexts, a \in BlockCallbacks, net \in NetStates :
          BlockUi(ctx, a, net)
    \/ \E ctx \in Contexts, net \in NetStates : UnblockUi(ctx, net)
    \/ \E ctx \in Contexts, res1 \in CallbackResults :
          CancelAction(ctx, res1, "return")

SpecBlock == Init /\ [][NextBlock]_vars

(***************************************************************************)
(* String updates of a variable bound to values of every type.             *)
(***************************************************************************)
TypedValues == {IntV(1), FloatV(1), ComplexV(1), BoolV(TRUE), DateV, ObjV,
                TableV, StrV(<<"a">>)}

TypeUpdates ==
    {Update("count", StrV(q)) : q \in Strings \cup {<<IsoLexeme>>}}
    \cup {UpdateNoPropagate("count", StrV(<<"5">>))}

NextTypes ==
    \/ \E mu \in BOOLEAN : Run(mu)
    \/ \E value \in TypedValues : Bind(Connection, "count", value)
    \/ Bind(Connection, "counter", IntV(0))
    \/ EvaluateExpr(Connection, PairExpr)
    \/ \E message \in TypeUpdates, net \in NetStates :
          ManageUpdate(Connection, message, "return", net)

SpecTypes == Init /\ [][NextTypes]_vars

(***************************************************************************)
(* An update callback that assigns bound variables: the property setter of *)
(* a bound name calls _update_var, which invokes the callback again.  The  *)
(* handling of one UPDATE is a stack of _update_var calls.                 *)
(***************************************************************************)
\* the number of nested _update_var calls the interpreter's stack has room for
RecursionLimit == 3

\* what the update callback, the application's code, does when invoked:
\* it returns, it raises, or it assigns a bound variable and then returns
CallbackMoves == {"return", "raise", "assign"}

\* _update_var up to the test of _update_function: [scopes, frame]
EnterUpdateVar(S, ctx, var_name, value, propagate) ==
    LET sc == get_scope(ctx)
        hash_expr == get_hash_from_expr(var_name)
        S1 == IF propagate THEN attrsetter(S, sc, hash_expr, value) ELSE S
        re == IF propagate /\ var_name = hash_expr
              THEN _re_evaluate_expr(S1, sc, var_name)
              ELSE [scopes |-> S1, modified |-> << >>]
    IN  [scopes |-> re.scopes,
         frame |-> [var_name |-> var_name, value |-> value,
                    modified |-> <<hash_expr>> \o re.modified,
                    pc |-> IF update_function # NoFunc THEN "callback"
                           ELSE "send"]]

\* the frames once the innermost call has returned: the callback that made
\* it returns too, and the call below goes on to its notification
Popped ==
    LET below == SubSeq(frames, 1, Len(frames) - 1)
    IN  IF below = << >> THEN below
        ELSE [below EXCEPT ![Len(below)].pc = "send"]

\* _manage_message for an UPDATE, as far as the first test of
\* _update_function
ReceiveUpdate(ctx, message) ==
    /\ running
    /\ frames = << >>
    /\ last' = Received("UPDATE", ctx, message)
    /\ prev' = scopes
    /\ LET hash == get_hash_from_expr(message.name)
           currentvalue == attrgetter(scopes, get_scope(ctx), hash)
           co == CoerceValue(message.name, currentvalue, message.payload)
           e == EnterUpdateVar(scopes, ctx, message.name, co.val,
                               message.propagate)
       IN  IF currentvalue = NoAttr \/ co.exc # "none" \/ co.ignore
           THEN /\ Handled(ManageUpdateOutcome(scopes, ctx, message,
                                               "return", "up"))
                /\ frames' = << >>
           ELSE /\ scopes' = e.scopes
                /\ frames' = <<e.frame>>
                /\ raised' = "none"
                /\ returned' = "None"
                /\ Quiet
                /\ UNCHANGED <<running, multi_user, props, update_function,
                               var_to_expr>>
    /\ UNCHANGED <<actionVars, handlers, pageVars>>

\* self._update_function(self, var_name, value) of the innermost call
InvokeCallback(move, name, value) ==
    /\ frames # << >>
    /\ frames[Len(frames)].pc = "callback"
    /\ LET top == frames[Len(frames)]
           e == EnterUpdateVar(scopes, last.ctx, name, value, TRUE)
       IN  /\ calls' = Append(calls, UpdateCall(top.var_name, top.value, move))
           /\ CASE move = "return" ->
                     /\ frames' = [frames EXCEPT ![Len(frames)].pc = "send"]
                     /\ UNCHANGED <<scopes, raised>>
                [] move = "raise" ->
                     /\ frames' = << >>
                     /\ raised' = "Exception"
                     /\ UNCHANGED scopes
                [] move = "assign" ->
                     /\ name \in props
                     /\ HasScopeAttr(scopes, get_scope(last.ctx), name)
                     /\ IF Len(frames) < RecursionLimit
                        THEN /\ scopes' = e.scopes
                             /\ frames' = Append(
                                    [frames EXCEPT ![Len(frames)].pc = "assigning"],
                                    e.frame)
                             /\ UNCHANGED raised
                        ELSE /\ frames' = << >>
                             /\ raised' = "RecursionError"
                             /\ UNCHANGED scopes
    /\ UNCHANGED <<running, multi_user, props, update_function, var_to_expr,
                   last, prev, warned, sent, returned, actionVars, handlers,
                   pageVars>>

\* self.__send_var_list_update(modified_vars) of the innermost call
SendModified(net) ==
    /\ frames # << >>
    /\ frames[Len(frames)].pc = "send"
    /\ LET o == __send_var_list_update(scopes, last.ctx,
                                       frames[Len(frames)].modified, << >>, net)
       IN  /\ sent' = sent \o o.sent
           /\ warned' = warned \o o.warned
           /\ raised' = o.exc
           /\ frames' = IF o.exc = "none" THEN Popped ELSE << >>
    /\ UNCHANGED <<running, multi_user, scopes, props, update_function,
                   var_to_expr, last, prev, calls, returned, actionVars,
                   handlers, pageVars>>

ReentrantUpdates == {Update("count", p) : p \in {StrV(<<"5">>), IntV(7)}}

NextReentrant ==
    \/ frames = << >> /\ \E mu \in BOOLEAN : Run(mu)
    \/ frames = << >> /\ \E name \in VarNames, value \in BindValues :
                            Bind(Connection, name, value)
    \/ frames = << >> /\ \E f \in UpdateFunctions : OnUpdate(f)
    \/ \E message \in ReentrantUpdates : ReceiveUpdate(Connection, message)
    \/ \E move \in CallbackMoves, name \in VarNames, value \in BindValues :
          InvokeCallback(move, name, value)
    \/ \E net \in NetStates : SendModified(net)

SpecReentrant == Init /\ [][NextReentrant]_vars

(***************************************************************************)
(* Batches: variables of several kinds and two dependent expressions,      *)
(* updated and requested together.                                         *)
(***************************************************************************)
BatchBinds ==
    {<<n, v>> : n \in VarNames, v \in BindValues}
    \cup {<<TableVar, TableV>>, <<DictVar, DictV(1)>>}

\* updates of count, and one of the table that is not to be written
BatchUpdates ==
    {Update("count", p) : p \in {StrV(<<"5">>), IntV(7)}}
    \cup {UpdateNoPropagate(TableVar, StrV(<<"5">>))}

BatchRequests ==
    {RequestUpdate(q) : q \in {<<TableVar, "count">>, <<"count", DictVar>>,
                               <<DictVar, TableVar, "count">>,
                               <<RevHash, PairHash>>}}

NextBatch ==
    \/ \E mu \in BOOLEAN : Run(mu)
    \/ \E b \in BatchBinds : Bind(Connection, b[1], b[2])
    \/ \E expr \in {PairExpr, RevExpr} : EvaluateExpr(Connection, expr)
    \/ \E message \in BatchUpdates, net \in NetStates :
          ManageUpdate(Connection, message, "return", net)
    \/ \E message \in BatchRequests, net \in NetStates :
          ManageRequestUpdate(Connection, message, net)

SpecBatch == Init /\ [][NextBatch]_vars

(***************************************************************************)
(* Properties.  ActiveScope is the scope the call handled last acted on;   *)
(* prev holds the scopes as that call found them.                          *)
(***************************************************************************)
ActiveScope == get_scope(last.ctx)

WellFormedUpdate ==
    /\ last.op = "UPDATE"
    /\ {"name", "payload"} \subseteq last.keys

Propagates == "propagate" \notin last.keys \/ last.propagate

\* what the coercion of the UPDATE handled last made of its payload
LastCoercion ==
    CoerceValue(last.name,
                prev[ActiveScope][get_hash_from_expr(last.name)],
                last.payload)

\* the UPDATE handled last got as far as _update_var
UpdateApplied ==
    /\ WellFormedUpdate
    /\ get_hash_from_expr(last.name) \in Hashes
    /\ prev[ActiveScope][get_hash_from_expr(last.name)] # NoAttr
    /\ LastCoercion.exc = "none"
    /\ ~LastCoercion.ignore

CallbacksReturned == \A i \in 1..Len(calls) : calls[i].result = "return"

HasEntry(msg, name, value) ==
    \E i \in 1..Len(msg.payload) :
        msg.payload[i] = [name |-> name, payload |-> [value |-> value]]

CountUpdateFive ==
    /\ WellFormedUpdate
    /\ last.name = "count"
    /\ last.payload = StrV(<<"5">>)
    /\ "propagate" \notin last.keys
    /\ prev[ActiveScope]["count"] = IntV(0)

\* C2: with count bound to the int 0, handling UPDATE {name: count,
\* payload: "5"} (propagate defaulting to true) leaves the int 5 under count
\* in the active scope, and, unless the update callback raises, the one
\* MULTIPLE_UPDATE it produces has the entry {name: count, payload: {value: 5}}.
C2_UpdateStoresAndPushesFive ==
    CountUpdateFive =>
        /\ scopes[ActiveScope]["count"] = IntV(5)
        /\ CallbacksReturned =>
              /\ Len(sent) = 1
              /\ sent[1].type = "MULTIPLE_UPDATE"
              /\ HasEntry(sent[1], "count", IntV(5))

C2_Witness ==
    /\ CountUpdateFive
    /\ scopes[ActiveScope]["count"] = IntV(5)
    /\ Len(sent) = 1
    /\ HasEntry(sent[1], "count", IntV(5))

\* how a value travels in a MULTIPLE_UPDATE: a datetime as its ISO string
WireValue(v) == IF v.t = "datetime" THEN dateToISO(v) ELSE v

UpdatedHash == get_hash_from_expr(last.name)

\* C3: when an UPDATE that propagates has been handled and the very next
\* call is a REQUEST_UPDATE of the same connection that names the updated
\* hash (and only hashes the scope holds), the MULTIPLE_UPDATE it produces
\* carries under that hash the value the UPDATE wrote: its payload after
\* coercion.
C3_RequestReturnsWrittenValue ==
    [][(/\ UpdateApplied
        /\ Propagates
        /\ last'.op = "REQUEST_UPDATE"
        /\ last'.ctx = last.ctx
        /\ last'.keys = {"payload"}
        /\ last'.payload = Val("dict", 0, <<"names">>)
        /\ \E i \in 1..Len(last'.names) : last'.names[i] = UpdatedHash
        /\ \A i \in 1..Len(last'.names) :
              HasScopeAttr(scopes, ActiveScope, last'.names[i]))
       => (/\ raised' = "none"
           /\ Len(sent') = 1
           /\ sent'[1].type = "MULTIPLE_UPDATE"
           /\ HasEntry(sent'[1], UpdatedHash, WireValue(LastCoercion.val)))]_vars

\* the bindings of this specification never hold 5: it comes from "5"
C3_Witness ==
    /\ last.op = "REQUEST_UPDATE"
    /\ last.names = <<"count">>
    /\ raised = "none"
    /\ Len(sent) = 1
    /\ HasEntry(sent[1], "count", IntV(5))

InboundKinds == {"UPDATE", "REQUEST_UPDATE", "DATA_UPDATE", "ACTION"}

\* the message handled last was of an unknown kind or an UPDATE that could
\* not be applied
Dropped ==
    \/ last.op \in UnknownTypes
    \/ last.op = "UPDATE" /\ ~UpdateApplied

\* C6: _manage_message lets no exception escape, and a message of an unknown
\* kind or a malformed one is dropped with a warning and changes no variable.
C6_MalformedDroppedWithWarning ==
    last.op \in InboundKinds \cup UnknownTypes =>
        /\ raised = "none"
        /\ Dropped => (warned # << >> /\ scopes = prev)

\* C9 as claimed: the update callback gets the value as the client sent it.
C9_CallbackGetsRawValue ==
    (UpdateApplied /\ update_function # NoFunc) =>
        /\ Len(calls) = 1
        /\ calls[1].name = last.name
        /\ calls[1].value = last.payload

\* C9: for an UPDATE, whether it propagates or not, the registered update
\* callback is invoked exactly once when the update gets as far as being
\* applied (the variable is bound, the payload could be coerced and was not
\* ignored) and not at all otherwise; it is given the name as received and
\* the value after coercion.
C9_CallbackGetsCoercedValue ==
    (last.op = "UPDATE" /\ update_function # NoFunc) =>
        IF UpdateApplied
        THEN /\ Len(calls) = 1
             /\ calls[1].fn = update_function
             /\ calls[1].name = last.name
             /\ calls[1].value = LastCoercion.val
        ELSE calls = << >>

C9_Witness ==
    /\ UpdateApplied
    /\ ~Propagates
    /\ last.name = "count"
    /\ last.payload = StrV(<<"5">>)
    /\ Len(calls) = 1
    /\ calls[1].value = IntV(5)

\* C10: an UPDATE with propagate false changes no variable of any scope,
\* dependents included; when it is applied the callback (if registered) is
\* invoked and, unless it raises, one MULTIPLE_UPDATE goes out holding only
\* the variable's hash with the value the scope already had.
C10_NoPropagateWritesNothing ==
    (last.op = "UPDATE" /\ ~Propagates) =>
        /\ scopes = prev
        /\ UpdateApplied =>
              /\ Len(calls) = (IF update_function = NoFunc THEN 0 ELSE 1)
              /\ CallbacksReturned =>
                    /\ Len(sent) = 1
                    /\ sent[1].payload =
                          <<[name |-> UpdatedHash,
                             payload |-> [value |->
                                WireValue(prev[ActiveScope][UpdatedHash])]]>>

C10_Witness ==
    /\ UpdateApplied
    /\ ~Propagates
    /\ last.name = "count"
    /\ last.payload = StrV(<<"5">>)
    /\ var_to_expr["count"] = <<PairExpr>>
    /\ HasScopeAttr(scopes, ActiveScope, PairHash)
    /\ scopes = prev
    /\ scopes[ActiveScope]["count"] = IntV(0)
    /\ Len(calls) = 1
    /\ Len(sent) = 1

IsBind == last.op \in {"_bind", "bind_var_val"}

\* the name was bound, in some scope, before the call handled last: the
\* first bind of a name copies it into the global scope
BoundBefore == last.name \in VarNames /\ prev[GLOBAL][last.name] # NoAttr

BoundInScopeBefore ==
    last.name \in VarNames /\ prev[ActiveScope][last.name] # NoAttr

\* C1 as claimed: once a name was bound, every later _bind of it raises and
\* changes nothing.
C1_SecondBindAlwaysFails ==
    (last.op = "_bind" /\ BoundBefore) =>
        (raised = "ValueError" /\ scopes = prev)

\* C1: a bind of a name the active scope already holds fails and leaves
\* every scope as it was: _bind raises a ValueError, bind_var_val returns
\* False.  A _bind of a name that only other scopes hold (another session
\* in multi-user mode) succeeds, stores the value in the active scope and
\* leaves what the other scopes hold, the first bind's value included.
C1_SecondBindInScopeFails ==
    /\ (IsBind /\ BoundInScopeBefore) =>
          /\ scopes = prev
          /\ last.op = "_bind" => raised = "ValueError"
          /\ last.op = "bind_var_val" =>
                (raised = "none" /\ returned = "False")
    /\ (last.op = "_bind" /\ BoundBefore /\ ~BoundInScopeBefore) =>
          /\ raised = "none"
          /\ scopes[ActiveScope][last.name] = last.payload
          /\ \A sc \in ScopeIds \ {ActiveScope} : scopes[sc] = prev[sc]

C1_Witness ==
    /\ last.op = "_bind"
    /\ last.name = "counter"
    /\ last.payload = IntV(1)
    /\ prev[ActiveScope]["counter"] = IntV(0)
    /\ raised = "ValueError"
    /\ scopes[ActiveScope]["counter"] = IntV(0)

\* C4: in multi-user mode, with counter bound in the scopes of two sessions,
\* an UPDATE of counter handled for one session leaves the other session's
\* scope as it was, and every message it produces is addressed to the
\* updating session alone.
C4_UpdateStaysInSession ==
    \A a \in Sessions : \A b \in Sessions \ {a} :
        (/\ multi_user
         /\ last.op = "UPDATE"
         /\ last.ctx = a
         /\ last.name = "counter"
         /\ prev[a]["counter"] # NoAttr
         /\ prev[b]["counter"] # NoAttr)
        => (/\ scopes[b] = prev[b]
            /\ \A i \in 1..Len(sent) : sent[i].to = a)

C4_Witness ==
    /\ multi_user
    /\ last.op = "UPDATE"
    /\ last.ctx = "A"
    /\ last.name = "counter"
    /\ prev["A"]["counter"] = IntV(0)
    /\ prev["B"]["counter"] = IntV(1)
    /\ scopes["A"]["counter"] = IntV(5)
    /\ scopes["B"]["counter"] = IntV(1)
    /\ Len(sent) = 1
    /\ sent[1].to = "A"

\* the ACTION handled last got as far as _on_action
ActionReceived == last.op = "ACTION" /\ "payload" \in last.keys

LastId == IF "name" \in last.keys THEN StrV(<<last.name>>) ELSE NoneV

LastAction == ActionOf(last.payload)

\* the engine has an attribute of the name the ACTION handled last carries
LastActionExposed ==
    /\ ActionName(LastAction) # ""
    /\ \/ HasGuiAttr(last.ctx, ActionName(LastAction))
       \/ ActionName(LastAction) \in funcs

\* C7: when the callback invoked for an ACTION raises, the exception is
\* caught and logged, no other callback is invoked because of the failure,
\* no state changes and nothing is raised to the caller of the handler.
C7_RaisingCallbackIsNoOp ==
    (ActionReceived /\ Len(calls) >= 1 /\ calls[1].result = "raise") =>
        /\ Len(calls) = 1
        /\ warned # << >>
        /\ raised = "none"
        /\ scopes = prev

\* the ACTION handled last names an action (its payload is no dict without
\* an "action" entry) of which the engine has no attribute, and an action
\* callback is registered
FallsBack ==
    /\ ActionReceived
    /\ LastAction # NoneV
    /\ ~LastActionExposed
    /\ action_function # NoFunc

InArgs(v, args) == \E i \in 1..Len(args) : args[i] = v

\* C8 as claimed: an ACTION naming an action the engine exposes no method
\* for is handed to the action callback, which receives the client id and
\* the raw payload, and no other callback is invoked.
C8_FallbackGetsIdAndRawPayload ==
    FallsBack =>
        /\ Len(calls) = 1
        /\ calls[1].fn = action_function
        /\ InArgs(LastId, calls[1].args)
        /\ InArgs(last.payload, calls[1].args)

\* the first n of the arguments (engine, id, action, payload)
FallbackArgs(n) == SubSeq(<<SelfArg, LastId, LastAction, last.payload>>, 1, n)

\* C8: an ACTION naming an action the engine has no attribute for is handed
\* to the registered action callback alone, called with as many of (engine,
\* id, action, payload) as it declares parameters, up to four; a callback
\* declaring more is not called and a warning is logged.
C8_FallbackGetsDeclaredArgs ==
    FallsBack =>
        /\ raised = "none"
        /\ scopes = prev
        /\ IF FuncArgcount(action_function) <= 4
           THEN /\ Len(calls) = 1
                /\ calls[1].fn = action_function
                /\ calls[1].args = FallbackArgs(FuncArgcount(action_function))
           ELSE calls = << >> /\ warned # << >>

C8_Witness ==
    /\ FallsBack
    /\ last.payload.t = "dict"
    /\ FuncArgcount(action_function) = 3
    /\ Len(calls) = 1
    /\ calls[1].args = <<SelfArg, LastId, LastAction>>

\* C5: the handlers of two UPDATEs of one variable are serialized, so that
\* the notification a handler pushed carries the value that handler wrote.
C5_PushCarriesOwnWrite ==
    \A th \in Threads :
        (handlers[th].pc = "done" /\ handlers[th].wrote # NoneV
         /\ handlers[th].pushed # NoneV) =>
            handlers[th].pushed = WsPayload(handlers[th].wrote).value

\* what the global scope shows under a name: the value, and for a wrapped
\* dict what the dict holds
GlobalEntry(S, name) ==
    IF S[GLOBAL][name].t = "map"
    THEN <<S[GLOBAL][name], S[HEAP][S[GLOBAL][name].n]>>
    ELSE <<S[GLOBAL][name]>>

\* the call handled last was a bind or an UPDATE made for a session that has
\* a scope of its own
InOwnScope ==
    /\ multi_user
    /\ last.ctx \in Sessions
    /\ last.op \in {"_bind", "UPDATE"}

\* C11: once a name is in the global scope, what the global scope holds
\* under it is changed neither by a later bind of the name in a session nor
\* by an UPDATE a session makes in its own scope, the UPDATE of an entry of
\* a dict-valued variable included.
C11_GlobalKeepsFirstBind ==
    InOwnScope =>
        \A name \in {"counter", DictVar} :
            prev[GLOBAL][name] # NoAttr =>
                GlobalEntry(scopes, name) = GlobalEntry(prev, name)

AllRoutes == routes \o partial_routes

\* C14: whatever add_page, add_pages and add_partial calls were made, no
\* route occurs twice among the routes of the pages and of the partials,
\* and no route is a reserved route.
C14_RoutesUniqueAndNotReserved ==
    /\ \A i \in 1..Len(AllRoutes) : \A j \in 1..Len(AllRoutes) :
          AllRoutes[i] = AllRoutes[j] => i = j
    /\ \A i \in 1..Len(AllRoutes) : AllRoutes[i] \notin ReservedRoutes

\* whom the messages of the call handled last are for: its connection in
\* multi-user mode when the request has a sid, every client otherwise
Originator == IF multi_user /\ last.ctx # NoSid THEN last.ctx ELSE ALL

OutboundTypes == {"MULTIPLE_UPDATE", "ALERT", "BLOCK", "NAVIGATE"}

\* C12: every message emitted while a request is handled is addressed to the
\* originating connection when multi-user mode is on and the request
\* carries a connection id, and to all clients otherwise.
C12_PushTargetsOriginator ==
    \A i \in 1..Len(sent) :
        /\ sent[i].type \in OutboundTypes
        /\ sent[i].to = Originator

C12_Witness ==
    /\ multi_user
    /\ last.op = "block_ui"
    /\ last.ctx = Connection
    /\ Len(sent) = 1
    /\ sent[1].type = "BLOCK"
    /\ sent[1].to = Connection

\* the DATA_UPDATE handled last names a variable that holds a value of a
\* data accessor
DataUpdateOfTable ==
    /\ last.op = "DATA_UPDATE"
    /\ {"name", "payload"} \subseteq last.keys
    /\ last.name \in Hashes
    /\ _is_data_access(last.name, prev[ActiveScope][last.name])

\* C13: a DATA_UPDATE for a data-accessor variable emits exactly one
\* message, whose entries are the variable with the accessor's window for
\* the query and "<variable>.refresh" with false, and changes no variable.
C13_DataUpdateSendsWindow ==
    DataUpdateOfTable =>
        /\ raised = "none"
        /\ scopes = prev
        /\ Len(sent) = 1
        /\ sent[1].type = "MULTIPLE_UPDATE"
        /\ sent[1].payload =
              <<[name |-> last.name,
                 payload |-> [value |-> Val("window", last.payload.n, << >>)]],
                [name |-> last.name \o ".refresh",
                 payload |-> [value |-> BoolV(FALSE)]]>>

C13_Witness ==
    /\ DataUpdateOfTable
    /\ last.payload = Query(5)
    /\ Len(sent) = 1
    /\ Len(sent[1].payload) = 2
    /\ sent[1].payload[1].payload.value = Val("window", 5, << >>)
    /\ sent[1].payload[2].name = "data.refresh"

\* the push of the UPDATE handled last failed
PushFailed ==
    /\ UpdateApplied
    /\ Propagates
    /\ \E i \in 1..Len(sent) : sent[i].failed

\* C15: when the push of an UPDATE fails, the failure is logged as a
\* warning, the push was attempted once only, the value the UPDATE wrote is
\* in the scope, and no exception leaves the handler.
C15_FailedPushIsLoggedOnly ==
    PushFailed =>
        /\ raised = "none"
        /\ Len(sent) = 1
        /\ \E i \in 1..Len(warned) : warned[i] = "websocket"
        /\ attrgetter(scopes, ActiveScope, UpdatedHash) = LastCoercion.val

C15_Witness ==
    /\ PushFailed
    /\ last.name = "count"
    /\ last.payload = StrV(<<"5">>)
    /\ prev[ActiveScope]["count"] = IntV(0)
    /\ scopes[ActiveScope]["count"] = IntV(5)
    /\ warned = <<"websocket">>
    /\ raised = "none"

\* the expressions that reference exactly one variable
SingleVarExprs == {e \in Exprs : Len(_fetch_expression_list(e)) = 1}

C17_InvalidNameBindFails ==
    [][(last'.op \in {"_bind", "bind_var_val"} /\ ~IsIdentifier(last'.name))
       => (/\ raised' = "ValueError"
           /\ scopes' = scopes
           /\ props' = props)]_vars

C17_Witness ==
    /\ last.op = "bind_var_val"
    /\ last.name = InvalidName
    /\ multi_user
    /\ last.ctx \in Sessions
    /\ raised = "ValueError"
    /\ returned = "None"
    /\ scopes = prev
    /\ props # {}

\* the types _front_end_update converts a string to
CoercedTypes == {"datetime", "int", "float", "complex", "bool"}

\* the UPDATE handled last carried a string
StringUpdate == WellFormedUpdate /\ last.payload.t = "str"

PrevValue == prev[ActiveScope][UpdatedHash]

\* C18: an applied UPDATE with a string payload against a datetime, int,
\* float, complex or bool leaves a value of that same type in the scope.
C18_StringUpdateKeepsType ==
    (StringUpdate /\ UpdateApplied /\ Propagates
     /\ PrevValue.t \in CoercedTypes) =>
        scopes[ActiveScope][UpdatedHash].t = PrevValue.t

\* C19: an UPDATE with the empty string against a variable that holds an
\* int leaves the int 0 in the scope, and nothing is raised unless the
\* update callback raises.
C19_EmptyStringIsZero ==
    (StringUpdate /\ Propagates /\ last.payload = StrV(<< >>)
     /\ UpdatedHash \in Hashes /\ PrevValue.t = "int") =>
        /\ scopes[ActiveScope][UpdatedHash] = IntV(0)
        /\ CallbacksReturned => raised = "none"

C19_Witness ==
    /\ StringUpdate
    /\ Propagates
    /\ last.payload = StrV(<< >>)
    /\ last.name = "count"
    /\ prev[ActiveScope]["count"] = IntV(1)
    /\ scopes[ActiveScope]["count"] = IntV(0)
    /\ raised = "none"

\* the UPDATE handled last carried a string for a variable whose value is of
\* none of the types _front_end_update converts itself
CasterUpdate ==
    /\ StringUpdate
    /\ UpdatedHash \in Hashes
    /\ PrevValue # NoAttr
    /\ PrevValue.t \notin CoercedTypes

\* C20: a string UPDATE of a variable no caster applies to is ignored: no
\* scope changes, no callback is invoked, nothing is sent and nothing is
\* raised; when a caster applies, the value written has the type of the
\* stored value, not that of the raw string.
C20_CasterDecides ==
    CasterUpdate =>
        IF _cast_string_value(last.name, PrevValue) = NoneV
        THEN /\ scopes = prev
             /\ sent = << >>
             /\ calls = << >>
             /\ raised = "none"
        ELSE Propagates => scopes[ActiveScope][UpdatedHash].t = PrevValue.t

\* the ACTION handled last names a function the engine exposes as an
\* attribute of the instance
ExposedCase ==
    /\ ActionReceived
    /\ ActionName(LastAction) \in funcs

ExposedName == ActionName(LastAction)

\* C21 as claimed: an ACTION naming a function the engine exposes invokes it
\* with as many leading arguments of (engine, client id, action name,
\* payload) as it declares parameters, for every count from 0 to 4.
C21_ExposedGetsLeadingArgs ==
    ExposedCase =>
        /\ Len(calls) >= 1
        /\ calls[1].fn = ExposedName
        /\ calls[1].args = FallbackArgs(FuncArgcount(ExposedName))

\* C21: an ACTION naming a function the engine exposes invokes it first,
\* with as many leading arguments of (engine, client id, payload) as it
\* declares parameters, for every count from 0 to 3; a function declaring
\* four parameters is not invoked and a warning is logged.
C21_ExposedGetsDeclaredArgs ==
    ExposedCase =>
        IF FuncArgcount(ExposedName) <= 3
        THEN /\ Len(calls) >= 1
             /\ calls[1].fn = ExposedName
             /\ calls[1].args =
                    SubSeq(<<SelfArg, LastId, last.payload>>, 1,
                           FuncArgcount(ExposedName))
        ELSE /\ \A i \in 1..Len(calls) : calls[i].fn # ExposedName
             /\ Len(warned) >= 1
             /\ warned[1] = "wrong signature"

C21_Witness ==
    /\ ExposedCase
    /\ FuncArgcount(ExposedName) = 3
    /\ last.payload.t = "dict"
    /\ Len(calls) = 1
    /\ calls[1].args = <<SelfArg, LastId, last.payload>>
    /\ last.payload # LastAction

\* the names of the entries of an outbound message, in order
EntryNames(msg) == [i \in 1..Len(msg.payload) |-> msg.payload[i].name]

\* the hashes an applied UPDATE changes: the variable's own, then, when it
\* propagates and names the variable itself, those of its dependents
ChangedHashes ==
    <<UpdatedHash>> \o
    (IF Propagates /\ last.name = UpdatedHash
     THEN [i \in 1..Len(Dependents(last.name)) |->
              get_hash_from_expr(Dependents(last.name)[i])]
     ELSE << >>)

\* the UPDATE handled last was applied and its handler ran to its end
UpdateHandled == UpdateApplied /\ raised = "none" /\ CallbacksReturned

\* the REQUEST_UPDATE handled last had a list of names and its handler ran
\* to its end
RequestHandled ==
    /\ last.op = "REQUEST_UPDATE"
    /\ "payload" \in last.keys
    /\ last.payload = Val("dict", 0, <<"names">>)
    /\ raised = "none"

\* C22: each handled UPDATE and each handled REQUEST_UPDATE with a list of
\* names hands exactly one message to the socket, a MULTIPLE_UPDATE holding
\* the entries of all the changed (requested) hashes together.
C22_OneBatchPerMessage ==
    /\ UpdateHandled =>
          /\ Len(sent) = 1
          /\ sent[1].type = "MULTIPLE_UPDATE"
          /\ EntryNames(sent[1]) = ChangedHashes
    /\ RequestHandled =>
          /\ Len(sent) = 1
          /\ sent[1].type = "MULTIPLE_UPDATE"
          /\ EntryNames(sent[1]) = last.names

C22_Witness ==
    /\ UpdateHandled
    /\ Propagates
    /\ Len(ChangedHashes) = 2
    /\ Len(sent) = 1
    /\ EntryNames(sent[1]) = <<"count", PairHash>>

\* the value an expression has in the active scope now
ValueNow(expr) == EvalExpr(scopes, ActiveScope, expr)

\* C23: the notification of an UPDATE of v that propagates lists v's own hash
\* first, then the hashes of the expressions that depend on v in the order
\* of their registration, the hash of v with the value written and each
\* dependent with its value recomputed after the write.
C23_OwnHashThenDependentsInOrder ==
    (UpdateHandled /\ Propagates /\ last.name = UpdatedHash) =>
        /\ Len(sent) = 1
        /\ Len(sent[1].payload) = 1 + Len(Dependents(last.name))
        /\ sent[1].payload[1] =
              [name |-> UpdatedHash,
               payload |-> [value |-> WireValue(LastCoercion.val)]]
        /\ \A i \in 1..Len(Dependents(last.name)) :
              sent[1].payload[i + 1] =
                  [name |-> get_hash_from_expr(Dependents(last.name)[i]),
                   payload |-> [value |->
                       WireValue(ValueNow(Dependents(last.name)[i]))]]

C23_Witness ==
    /\ UpdateHandled
    /\ last.name = "count"
    /\ last.payload = StrV(<<"5">>)
    /\ var_to_expr["count"] = <<RevExpr, PairExpr>>
    /\ prev[ActiveScope]["count"] = IntV(0)
    /\ prev[ActiveScope]["counter"] = IntV(1)
    /\ Len(sent) = 1
    /\ EntryNames(sent[1]) = <<"count", RevHash, PairHash>>
    /\ HasEntry(sent[1], RevHash, StrV(<<"1", "/", "5">>))
    /\ HasEntry(sent[1], PairHash, StrV(<<"5", "/", "1">>))

\* the hashes the message handled last had __send_var_list_update go through
NotifiedHashes ==
    IF last.op = "REQUEST_UPDATE" THEN last.names ELSE ChangedHashes

BatchHandled == UpdateHandled \/ RequestHandled

\* the value the active scope holds under a notified hash
Current(h) == attrgetter(scopes, ActiveScope, h)

HasName(msg, name) == \E i \in 1..Len(msg.payload) : msg.payload[i].name = name

\* C24: for every notified hash whose current value the data accessors
\* recognise, the batch holds the entry <hash>.refresh with the value true,
\* no entry under the hash itself, and the recognised value in no entry.
C24_DataAccessSendsRefreshOnly ==
    BatchHandled =>
        /\ Len(sent) = 1
        /\ \A i \in 1..Len(NotifiedHashes) :
              _is_data_access(NotifiedHashes[i], Current(NotifiedHashes[i])) =>
                  /\ HasEntry(sent[1], NotifiedHashes[i] \o ".refresh",
                              BoolV(TRUE))
                  /\ ~HasName(sent[1], NotifiedHashes[i])
        /\ \A j \in 1..Len(sent[1].payload) :
              sent[1].payload[j].payload.value.t # "table"

C24_Witness ==
    /\ UpdateHandled
    /\ last.name = TableVar
    /\ Current(TableVar) = TableV
    /\ Len(sent) = 1
    /\ sent[1].payload =
          <<[name |-> TableVar \o ".refresh",
             payload |-> [value |-> BoolV(TRUE)]]>>

\* C25: no MULTIPLE_UPDATE has an entry whose value is a _MapDictionary; a
\* notified hash whose value is one has no entry in the batch, and every
\* other notified hash still has its entry (or its refresh marker).
C25_MapWrapperLeftOut ==
    /\ \A k \in 1..Len(sent) :
          sent[k].type = "MULTIPLE_UPDATE" =>
              \A j \in 1..Len(sent[k].payload) :
                  sent[k].payload[j].payload.value.t # "map"
    /\ BatchHandled =>
          /\ Len(sent) = 1
          /\ \A i \in 1..Len(NotifiedHashes) :
                IF Current(NotifiedHashes[i]).t = "map"
                THEN ~HasName(sent[1], NotifiedHashes[i])
                ELSE \/ HasName(sent[1], NotifiedHashes[i])
                     \/ HasName(sent[1], NotifiedHashes[i] \o ".refresh")

C25_Witness ==
    /\ RequestHandled
    /\ last.names = <<DictVar, TableVar, "count">>
    /\ Current(DictVar).t = "map"
    /\ Len(sent) = 1
    /\ EntryNames(sent[1]) = <<TableVar \o ".refresh", "count">>

\* C26: the handling of an UPDATE ends with the handler returning, whatever
\* the update callback assigns: the callback invocations it sets off never
\* use up the stack.
C26_UpdateHandlingReturns ==
    last.op = "UPDATE" => raised # "RecursionError"

\* _is_ui_blocked() in a scope
IsUiBlocked(S, sc) == S[sc][UiBlockName] = BoolV(TRUE)

\* the call made by a step is block_ui, unblock_ui, or the cancel action
BlockStep == last'.op = "block_ui"

UnblockStep == last'.op = "unblock_ui"

CancelStep ==
    /\ last'.op = "ACTION"
    /\ last'.payload = StrV(<<CancelBlockName>>)
    /\ CancelBlockName \in funcs

\* C27: in every scope _is_ui_blocked() is false at first, becomes true with
\* a block_ui call in that scope, false with an unblock_ui call or a cancel
\* action in that scope, and changes with nothing else; the cancel action
\* resets the flag and dispatches the callback given to block_ui; the BLOCK
\* message of block_ui names the cancel action and has noCancel false
\* exactly when a callback was given.
C27_BlockedFromBlockToUnblock ==
    [][\A sc \in ScopeIds :
          /\ IsUiBlocked(scopes', sc) =
                (IF get_scope(last'.ctx) # sc THEN IsUiBlocked(scopes, sc)
                 ELSE IF BlockStep THEN TRUE
                 ELSE IF UnblockStep \/ CancelStep THEN FALSE
                 ELSE IsUiBlocked(scopes, sc))
          /\ BlockStep =>
                /\ Len(sent') = 1
                /\ sent'[1].type = "BLOCK"
                /\ sent'[1].payload.action = CancelBlockName
                /\ sent'[1].payload.noCancel = (last'.name = NoFunc)
          /\ (CancelStep /\ last.op = "block_ui" /\ last.ctx = last'.ctx
              /\ last.name \in funcs) =>
                /\ Len(calls') >= 1
                /\ calls'[1].fn = last.name]_vars

====
